---- MODULE Spec2Model ----
(***************************************************************************)
(* A model of the capacity-planner API server (api/server.js) and of the   *)
(* shared client-side merge helper (shared/computations.js).               *)
(*                                                                         *)
(* JSON values are modelled with their key order, because the server       *)
(* compares values with JSON.stringify, which depends on it.  The JSON     *)
(* files under DATA_DIR are the server's only state.                       *)
(***************************************************************************)
EXTENDS Integers, Sequences, FiniteSets, TLC

(***************************************************************************)
(* Bounds of the model.                                                    *)
(***************************************************************************)
\* Date.now() takes the values 1..MaxClock.
MaxClock == 3

(***************************************************************************)
(* JSON values.  Every value is a record of the same shape:                *)
(*   kind  "undefined" | "null" | "num" | "arr" | "obj"                    *)
(*   n     the number, for a "num"                                         *)
(*   el    the elements (numbers), for an "arr"                            *)
(*   kv    the properties in their enumeration order, for an "obj":        *)
(*         a sequence of [k |-> key, v |-> value]                          *)
(***************************************************************************)
Undefined == [kind |-> "undefined", n |-> 0, el |-> <<>>, kv |-> <<>>]
Null == [kind |-> "null", n |-> 0, el |-> <<>>, kv |-> <<>>]
Num(x) == [kind |-> "num", n |-> x, el |-> <<>>, kv |-> <<>>]
Arr(s) == [kind |-> "arr", n |-> 0, el |-> s, kv |-> <<>>]
Obj(props) == [kind |-> "obj", n |-> 0, el |-> <<>>, kv |-> props]
P(key, val) == [k |-> key, v |-> val]

\* Object.keys(o), in enumeration order, and as a set.
ObjectKeys(o) == [i \in 1..Len(o.kv) |-> o.kv[i].k]
KeySet(o) == {o.kv[i].k : i \in 1..Len(o.kv)}
\* `key in o`
HasKey(o, key) == key \in KeySet(o)
\* o[key]: undefined when o has no such property.
Get(o, key) ==
  IF HasKey(o, key)
    THEN (CHOOSE p \in {o.kv[i] : i \in 1..Len(o.kv)} : p.k = key).v
    ELSE Undefined

\* JSON.stringify(v) as the sequence of its tokens.  JSON.stringify(undefined)
\* is undefined, no string at all: the token "undefined" is no JSON text.
RECURSIVE JoinTokens(_, _)
JoinTokens(parts, i) ==
  IF i > Len(parts) THEN <<>>
  ELSE (IF i > 1 THEN <<",">> ELSE <<>>) \o parts[i] \o JoinTokens(parts, i + 1)

RECURSIVE JSONstringify(_)
JSONstringify(v) ==
  CASE v.kind = "undefined" -> <<"undefined">>
    [] v.kind = "null" -> <<"null">>
    [] v.kind = "num" -> <<ToString(v.n)>>
    [] v.kind = "arr" ->
         <<"[">> \o JoinTokens([i \in 1..Len(v.el) |-> <<ToString(v.el[i])>>], 1) \o <<"]">>
    [] v.kind = "obj" ->
         <<"{">>
         \o JoinTokens([i \in 1..Len(v.kv) |->
                          <<v.kv[i].k, ":">> \o JSONstringify(v.kv[i].v)], 1)
         \o <<"}">>

\* Deep structural equality of two JSON values: the order of an object's keys
\* does not matter.
RECURSIVE DeepEqual(_, _)
DeepEqual(a, b) ==
  /\ a.kind = b.kind
  /\ a.n = b.n
  /\ a.el = b.el
  /\ KeySet(a) = KeySet(b)
  /\ \A key \in KeySet(a) : DeepEqual(Get(a, key), Get(b, key))

\* typeof v === 'object' && v && !Array.isArray(v)
IsKeyedObject(v) == v.kind = "obj"

\* !v
Falsy(v) == v.kind \in {"undefined", "null"} \/ (v.kind = "num" /\ v.n = 0)

(***************************************************************************)
(* The program's constants.                                                *)
(***************************************************************************)
\* The state fields of the model: three of the twelve names of STATE_FIELDS,
\* which the save loop treats alike.
STATE_FIELDS == <<"capacity", "tracks", "milestones">>
Fields == {STATE_FIELDS[i] : i \in 1..Len(STATE_FIELDS)}

Verticals == {"growth", "casino"}

DEFAULT_CAPACITY ==
  Obj(<<P("backend", Num(40)), P("frontend", Num(30)),
        P("natives", Num(25)), P("qa", Num(20))>>)
DEFAULT_TRACKS ==
  Obj(<<P("core-bonus", Arr(<<>>)), P("gateway", Arr(<<>>)),
        P("seo-aff", Arr(<<>>))>>)

\* The body of `{}`: no field, no `_fieldTs`, no `updatedAt` (a timestamp of 0
\* is no entry: Date.now() is never 0).  A document is
\*   fields      the value of each state field (Undefined: absent)
\*   fieldTs     `_fieldTs`, the time each field last changed (0: no entry)
\*   hasFieldTs  whether the document has a `_fieldTs` property at all
\*   updatedAt   `updatedAt` (0: absent)
EmptyDoc ==
  [fields |-> [f \in Fields |-> Undefined], fieldTs |-> [f \in Fields |-> 0],
   hasFieldTs |-> FALSE, updatedAt |-> 0]

\* { capacity: { ...DEFAULT_CAPACITY }, tracks: { ...DEFAULT_TRACKS } }
DefaultStateDoc ==
  [EmptyDoc EXCEPT !.fields = [f \in Fields |->
     CASE f = "capacity" -> DEFAULT_CAPACITY
       [] f = "tracks" -> DEFAULT_TRACKS
       [] OTHER -> Undefined]]

\* A file of DATA_DIR: whether it exists, and the document in it.
NoFile == [exists |-> FALSE, doc |-> EmptyDoc]
FileOf(d) == [exists |-> TRUE, doc |-> d]

\* A request body with no state field.
NoBody == [f \in Fields |-> Undefined]
\* `_loadedAt` missing from the body (or null).
Missing == -1

\* A project, as far as the server reads it: its id (0: null or missing) and
\* two of its sizes (impact, and backend for the four discipline sizes, which
\* are validated alike).
Project(id, impact, backend) == [id |-> id, impact |-> impact, backend |-> backend]
\* req.body.projects: whether it is an array, and its items.
ProjectsArray(items) == [isArray |-> TRUE, items |-> items]
NotAnArray == [isArray |-> FALSE, items |-> <<>>]

\* An HTTP request: the route (op), :key, :id, and what the handlers read of
\* the body; `sender` is the x-ws-id header (0: none).
NoReq ==
  [op |-> "none", key |-> "", body |-> NoBody, loadedAt |-> 0,
   projects |-> NotAnArray, id |-> 0, name |-> "", sender |-> 0]
SaveStateReq(key, body, rawLoadedAt) ==
  [NoReq EXCEPT !.op = "saveState", !.key = key, !.body = body,
                !.loadedAt = rawLoadedAt]
SaveProjectsReq(key, projects) ==
  [NoReq EXCEPT !.op = "saveProjects", !.key = key, !.projects = projects]
SaveSnapshotReq(key, name) ==
  [NoReq EXCEPT !.op = "saveSnapshot", !.key = key, !.name = name]
RestoreSnapshotReq(key, id) ==
  [NoReq EXCEPT !.op = "restoreSnapshot", !.key = key, !.id = id]
DeleteSnapshotReq(key, id) ==
  [NoReq EXCEPT !.op = "deleteSnapshot", !.key = key, !.id = id]

(***************************************************************************)
(* The state.                                                              *)
(***************************************************************************)
VARIABLES
  stateFiles,     \* state_<key>.json of each vertical
  projectFiles,   \* projects_<key>.json of each vertical
  snapshotFiles,  \* snapshots_<key>.json of each vertical: the snapshots, newest first
  snapshotCount,  \* the snapshots created so far (their ids are unique)
  clock,          \* the value Date.now() returns
  req,            \* the request that has arrived and is not handled yet
  last            \* the request handled last: the request, the files of its
                  \* vertical before it, the time it read and its response,
                  \* until the response is delivered

VARIABLES
  clients,        \* the browser sessions: what each holds of one object field
  inflight        \* the state saves the server has accepted, each with the
                  \* position of its handler

VARIABLES
  call,           \* a call of one of the shared pure functions: its name and
                  \* its arguments
  result,         \* what the call returned, once it has
  heap            \* the objects the caller and the calls have allocated

VARIABLES
  sockets,        \* the WebSocket connections: readyState, the handler's
                  \* subscribedVertical, and the messages sent to it that its
                  \* client has not taken yet
  verticalClients \* the Map from a vertical to the Set of its connections

files == <<stateFiles, projectFiles, snapshotFiles, snapshotCount>>
sessions == <<clients, inflight>>
pure == <<call, result, heap>>
ws == <<sockets, verticalClients>>
vars ==
  <<stateFiles, projectFiles, snapshotFiles, snapshotCount, clock, req, last,
    clients, inflight, call, result, heap, sockets, verticalClients>>

\* getStateFile(key): the name of the state file of a vertical, here the key
\* of the file in stateFiles.
getStateFileShared(key) == "growth"
getStateFile(key) == key

\* loadJSON(filename, defaultVal)
loadJSON(file, defaultVal) == IF file.exists THEN file.doc ELSE defaultVal

(***************************************************************************)
(* saveStateHandler: POST/PUT /api/verticals/:key/state                    *)
(***************************************************************************)
\* Mutant of hasAnyField: every body passes.
hasAnyFieldAlways(body) == TRUE

\* STATE_FIELDS.some(f => req.body[f] !== undefined)
hasAnyField(body) == \E f \in Fields : body[f] # Undefined

\* Mutant of clientLoadedAtOf: the marker as it came, without `|| 0`.
clientLoadedAtOfRaw(rawLoadedAt) == rawLoadedAt

\* const clientLoadedAt = _loadedAt || 0
clientLoadedAtOf(rawLoadedAt) == IF rawLoadedAt = Missing THEN 0 ELSE rawLoadedAt

\* Mutants of NoConflict: the test without its boundary, and the test without
\* the force-overwrite sentinel.
NoConflictStrict(clientLoadedAt, fieldLastModified) ==
  clientLoadedAt = 0 \/ fieldLastModified < clientLoadedAt
NoConflictNoForce(clientLoadedAt, fieldLastModified) ==
  fieldLastModified <= clientLoadedAt

\* clientLoadedAt === 0 || fieldLastModified <= clientLoadedAt
NoConflict(clientLoadedAt, fieldLastModified) ==
  clientLoadedAt = 0 \/ fieldLastModified <= clientLoadedAt

\* JSON.stringify(clientValue) !== JSON.stringify(existing[field])
valueChanged(clientValue, existingValue) ==
  JSONstringify(clientValue) # JSONstringify(existingValue)

\* Mutant of merged: the server's sub-keys the client omitted are put back.
mergedKeepsServerKeys(clientValue, existingValue) ==
  Obj(clientValue.kv
      \o SelectSeq(existingValue.kv, LAMBDA p : ~HasKey(clientValue, p.k)))

\* const merged = { ...clientValue }: the client's properties in the client's
\* order; nothing of the server's value is put into it afterwards.
merged(clientValue, existingValue) == clientValue

\* The keys the client added or modified.
changedSubKeys(clientValue, existingValue) ==
  SelectSeq(ObjectKeys(clientValue),
            LAMBDA subKey : JSONstringify(Get(clientValue, subKey))
                            # JSONstringify(Get(existingValue, subKey)))

\* The keys the client deleted (present on the server, absent in the client).
deletedKeys(clientValue, existingValue) ==
  SelectSeq(ObjectKeys(existingValue), LAMBDA subKey : ~HasKey(clientValue, subKey))

\* What one pass of the loop over STATE_FIELDS does for its field:
\*   assign    whether it assigns state[field], and then `value`
\*   bump      whether it sets fieldTs[field] = now
\*   rejected  whether it pushes the field to `rejected`
SkipField == [assign |-> FALSE, value |-> Undefined, bump |-> FALSE, rejected |-> FALSE]

\* The no-conflict branch: state[field] = clientValue, and the timestamp only
\* if the value changed.
AcceptField(clientValue, existingValue) ==
  [assign |-> TRUE, value |-> clientValue,
   bump |-> valueChanged(clientValue, existingValue), rejected |-> FALSE]

\* The branch of a conflict on an object field: the sub-key merge.
SubKeyMerge(clientValue, existingValue) ==
  IF Len(changedSubKeys(clientValue, existingValue)) > 0
     \/ Len(deletedKeys(clientValue, existingValue)) > 0
    THEN [assign |-> TRUE, value |-> merged(clientValue, existingValue),
          bump |-> TRUE, rejected |-> FALSE]
    ELSE SkipField

\* Mutant of RejectField: the client's value is assigned all the same.
RejectFieldTakesClient(clientValue, existingValue) ==
  [assign |-> TRUE, value |-> clientValue, bump |-> FALSE, rejected |-> TRUE]

\* The branch of a conflict on a non-object field: rejected.push(field).
RejectField(clientValue, existingValue) == [SkipField EXCEPT !.rejected = TRUE]

MergeField(existing, fieldTs, field, clientValue, clientLoadedAt) ==
  LET existingValue == existing.fields[field]
      fieldLastModified == fieldTs[field]
  IN
  IF clientValue = Undefined THEN SkipField
  ELSE IF NoConflict(clientLoadedAt, fieldLastModified)
    THEN AcceptField(clientValue, existingValue)
  ELSE IF IsKeyedObject(clientValue) /\ IsKeyedObject(existingValue)
    THEN SubKeyMerge(clientValue, existingValue)
  ELSE RejectField(clientValue, existingValue)

\* Mutant of BaseState: the new document does not start from the loaded one.
BaseStateFresh(existing, now) == [EmptyDoc EXCEPT !.updatedAt = now]

\* const state = { ...existing, updatedAt: new Date().toISOString() }
BaseState(existing, now) == [existing EXCEPT !.updatedAt = now]

\* Mutant of FieldTsOf: the map starts empty at every save.
FieldTsOfEmpty(existing) == [f \in Fields |-> 0]

\* const fieldTs = existing._fieldTs || {}
FieldTsOf(existing) == existing.fieldTs

\* Mutant of LoopPass: once a field is rejected, the fields after it are
\* rejected too.
LoopPassAllOrNothing(acc, existing, field, clientValue, clientLoadedAt, now) ==
  LET r == IF acc.rejected # <<>> /\ clientValue # Undefined
             THEN RejectField(clientValue, existing.fields[field])
             ELSE MergeField(existing, acc.fieldTs, field, clientValue, clientLoadedAt)
  IN [state |-> IF r.assign THEN [acc.state EXCEPT !.fields[field] = r.value]
                ELSE acc.state,
      fieldTs |-> IF r.bump THEN [acc.fieldTs EXCEPT ![field] = now] ELSE acc.fieldTs,
      rejected |-> IF r.rejected THEN Append(acc.rejected, field) ELSE acc.rejected]

\* One pass of `for (const field of STATE_FIELDS)`: it reads existing[field]
\* and fieldTs[field], and writes state[field], fieldTs[field] and `rejected`.
LoopPass(acc, existing, field, clientValue, clientLoadedAt, now) ==
  LET r == MergeField(existing, acc.fieldTs, field, clientValue, clientLoadedAt)
  IN [state |-> IF r.assign THEN [acc.state EXCEPT !.fields[field] = r.value]
                ELSE acc.state,
      fieldTs |-> IF r.bump THEN [acc.fieldTs EXCEPT ![field] = now] ELSE acc.fieldTs,
      rejected |-> IF r.rejected THEN Append(acc.rejected, field) ELSE acc.rejected]

\* The loop from the i-th field of STATE_FIELDS on.
RECURSIVE ReconcileLoop(_, _, _, _, _, _)
ReconcileLoop(i, acc, existing, body, clientLoadedAt, now) ==
  IF i > Len(STATE_FIELDS) THEN acc
  ELSE ReconcileLoop(i + 1,
                     LoopPass(acc, existing, STATE_FIELDS[i], body[STATE_FIELDS[i]],
                              clientLoadedAt, now),
                     existing, body, clientLoadedAt, now)

\* The document the handler writes (state._fieldTs = fieldTs after the loop),
\* and the `rejected` list.
Reconcile(existing, body, clientLoadedAt, now) ==
  LET out == ReconcileLoop(1, [state |-> BaseState(existing, now),
                               fieldTs |-> FieldTsOf(existing), rejected |-> <<>>],
                           existing, body, clientLoadedAt, now)
  IN [state |-> [out.state EXCEPT !.fieldTs = out.fieldTs, !.hasFieldTs = TRUE],
      rejected |-> out.rejected]

\* Mutant of ResponseState: _fieldTs is not deleted from the copy.
ResponseStateWithFieldTs(state, now) ==
  [fields |-> state.fields, updatedAt |-> state.updatedAt, loadedAt |-> now,
   hasFieldTs |-> state.hasFieldTs, fieldTs |-> state.fieldTs]

\* { ...state }, _loadedAt = now, delete _fieldTs
ResponseState(state, now) ==
  [fields |-> state.fields, updatedAt |-> state.updatedAt, loadedAt |-> now,
   hasFieldTs |-> FALSE, fieldTs |-> [f \in Fields |-> 0]]

NoResponseState == ResponseState(EmptyDoc, 0)

\* The call broadcastUpdate(vertical, updatedAt, senderId) of a handler.
NoBroadcast == [called |-> FALSE, vertical |-> "", updatedAt |-> 0, senderId |-> 0]
BroadcastCall(vertical, updatedAt, senderId) ==
  [called |-> TRUE, vertical |-> vertical, updatedAt |-> updatedAt,
   senderId |-> senderId]

\* loadJSON(getProjectsFile(key), [])
loadProjects(file) == IF file.exists THEN file.items ELSE <<>>

\* The WebSocket connections the server accepts, and the verticals their
\* clients name in a subscribe message: the server's and one it does not have.
ConnIds == {"w1", "w2"}
WsVerticals == Verticals \cup {"other"}
\* ws.readyState: CONNECTING, OPEN, CLOSING, CLOSED.
CONNECTING == 0
OPEN == 1
CLOSING == 2
CLOSED == 3

\* A message the server sends on a connection.
NoMessage ==
  [type |-> "", vertical |-> "", updatedAt |-> 0, senderId |-> 0,
   state |-> NoResponseState, projects |-> <<>>]
\* { type: 'connected' }
Connected == [NoMessage EXCEPT !.type = "connected"]
\* A connection not made yet; subscribedVertical "" is null.
\* No message from the client.
NoRaw == [json |-> FALSE, type |-> "", vertical |-> ""]
\* A connection not made yet; subscribedVertical "" is null.  `raw` is a
\* message that has arrived from the client and waits for its handler.
NoSocket ==
  [readyState |-> CONNECTING, subscribedVertical |-> "", inbox |-> <<>>,
   raw |-> NoRaw]

\* The same message without the sender.
UpdateMessageNoSender(b, sFiles, pFiles, now) ==
  [type |-> "update", vertical |-> b.vertical, updatedAt |-> b.updatedAt,
   senderId |-> 0,
   state |-> ResponseState(loadJSON(sFiles[getStateFile(b.vertical)], EmptyDoc), now),
   projects |-> loadProjects(pFiles[b.vertical])]

\* { type: 'update', vertical, updatedAt, senderId, state, projects }, with the
\* state and the projects read from the files.
UpdateMessage(b, sFiles, pFiles, now) ==
  [type |-> "update", vertical |-> b.vertical, updatedAt |-> b.updatedAt,
   senderId |-> b.senderId,
   state |-> ResponseState(loadJSON(sFiles[getStateFile(b.vertical)], EmptyDoc), now),
   projects |-> loadProjects(pFiles[b.vertical])]

\* The same function sending to every open connection.
broadcastUpdateToAll(b, sFiles, pFiles, now) ==
  IF ~b.called THEN sockets
  ELSE [w \in ConnIds |->
          IF sockets[w].readyState = OPEN
            THEN [sockets[w] EXCEPT
                    !.inbox = Append(@, UpdateMessage(b, sFiles, pFiles, now))]
            ELSE sockets[w]]

\* broadcastUpdate(vertical, updatedAt, senderId), if the handler calls it at
\* all: the connections after the sends.  A Map without the vertical and an
\* empty Set both send nothing.
broadcastUpdate(b, sFiles, pFiles, now) ==
  IF ~b.called THEN sockets
  ELSE [w \in ConnIds |->
          IF w \in verticalClients[b.vertical] /\ sockets[w].readyState = OPEN
            THEN [sockets[w] EXCEPT
                    !.inbox = Append(@, UpdateMessage(b, sFiles, pFiles, now))]
            ELSE sockets[w]]

(***************************************************************************)
(* Audit logging: describeStateChanges, buildNarratives and logAudit.      *)
(***************************************************************************)
\* A narrative of buildNarratives: the field it was built for and what its
\* text says, with the id and the key the text names (0, "": none).
Narrative(field, what, id, key) == [field |-> field, what |-> what, id |-> id, key |-> key]

\* Object.keys(v || {}) with the values: the properties of an object, the
\* indices of an array, nothing otherwise.
OwnEntries(v) ==
  CASE v.kind = "obj" -> v.kv
    [] v.kind = "arr" -> [i \in 1..Len(v.el) |-> P(ToString(i - 1), Num(v.el[i]))]
    [] OTHER -> <<>>
\* (v || {})[key]
EntryOf(v, key) ==
  LET entries == OwnEntries(v)
      at == {i \in 1..Len(entries) : entries[i].k = key}
  IN IF at = {} THEN Undefined ELSE entries[CHOOSE i \in at : TRUE].v
\* new Set([...Object.keys(before || {}), ...Object.keys(after || {})]), in
\* its order of iteration.
AllKeys(before, after) ==
  LET bKeys == [i \in 1..Len(OwnEntries(before)) |-> OwnEntries(before)[i].k]
      aKeys == [i \in 1..Len(OwnEntries(after)) |-> OwnEntries(after)[i].k]
      seen == {bKeys[i] : i \in 1..Len(bKeys)}
  IN bKeys \o SelectSeq(aKeys, LAMBDA k : k \notin seen)

\* Concatenation of the sequences parts[i..].
RECURSIVE Flatten(_, _)
Flatten(parts, i) ==
  IF i > Len(parts) THEN <<>> ELSE parts[i] \o Flatten(parts, i + 1)

\* bVal !== aVal: numbers, null and undefined compare by value, two parsed
\* objects or arrays are never the same object.
StrictlyDiffer(bVal, aVal) ==
  IF bVal.kind \in {"arr", "obj"} \/ aVal.kind \in {"arr", "obj"} THEN TRUE
  ELSE bVal # aVal

\* field === 'capacity': one narrative for each key whose value differs.
CapacityNarratives(before, after) ==
  LET keys == AllKeys(before, after)
      one(k) ==
        LET bVal == EntryOf(before, k)
            aVal == EntryOf(after, k)
        IN IF ~StrictlyDiffer(bVal, aVal) THEN <<>>
           ELSE IF bVal = Undefined THEN <<Narrative("capacity", "Set", 0, k)>>
           ELSE IF aVal = Undefined THEN <<Narrative("capacity", "Removed", 0, k)>>
           ELSE <<Narrative("capacity", "Changed", 0, k)>>
  IN Flatten([i \in 1..Len(keys) |-> one(keys[i])], 1)

\* (v || []) as a list of ids; on a truthy value that is no array `.filter`
\* and `.includes` are no functions.
IdsOf(v) == IF v.kind = "arr" THEN v.el ELSE <<>>
NoList(v) == ~Falsy(v) /\ v.kind # "arr"
Includes(ids, id) == \E i \in 1..Len(ids) : ids[i] = id

\* field === 'tracks' throws a TypeError when a track of either side is
\* truthy and no array.
TracksNarrativesThrow(before, after) ==
  \/ \E i \in 1..Len(OwnEntries(before)) : NoList(OwnEntries(before)[i].v)
  \/ \E i \in 1..Len(OwnEntries(after)) : NoList(OwnEntries(after)[i].v)

\* field === 'tracks': for each track, the ids added to it, and the ids
\* removed from it that no other track has gained.
TracksNarratives(before, after) ==
  LET keys == AllKeys(before, after)
      bArrs == [i \in 1..Len(keys) |-> IdsOf(EntryOf(before, keys[i]))]
      aArrs == [i \in 1..Len(keys) |-> IdsOf(EntryOf(after, keys[i]))]
      gained == [i \in 1..Len(keys) |->
                   SelectSeq(aArrs[i], LAMBDA id : ~Includes(bArrs[i], id))]
      movedTo(id, i) ==
        \E j \in 1..Len(keys) : j # i /\ Includes(gained[j], id)
      one(i) ==
        LET removed == SelectSeq(bArrs[i], LAMBDA id : ~Includes(aArrs[i], id))
            gone == SelectSeq(removed, LAMBDA id : ~movedTo(id, i))
        IN [n \in 1..Len(gained[i]) |-> Narrative("tracks", "Moved", gained[i][n], keys[i])]
           \o [n \in 1..Len(gone) |-> Narrative("tracks", "Removed", gone[n], keys[i])]
  IN Flatten([i \in 1..Len(keys) |-> one(i)], 1)

\* (v || []).length: the length of a list, 0 for a falsy value, and no
\* number (here -1, which no comparison of the function accepts) otherwise.
LengthOf(v) == IF v.kind = "arr" THEN Len(v.el) ELSE IF Falsy(v) THEN 0 ELSE 0 - 1

\* field === 'milestones': the milestones added at the end, or that some
\* were removed, or that they were updated.
MilestonesNarratives(before, after) ==
  LET bLen == LengthOf(before)
      aLen == LengthOf(after)
  IN IF bLen >= 0 /\ aLen > bLen
       THEN [i \in 1..(aLen - bLen) |-> Narrative("milestones", "Added", 0, "")]
     ELSE IF aLen >= 0 /\ aLen < bLen
       THEN <<Narrative("milestones", "Removed", 0, "")>>
     ELSE <<Narrative("milestones", "Updated", 0, "")>>

\* buildNarratives(field, before, after, ...), with the fallback the caller
\* pushes when it throws.
buildNarratives(field, before, after) ==
  CASE field = "capacity" -> CapacityNarratives(before, after)
    [] field = "tracks" ->
         IF TracksNarrativesThrow(before, after)
           THEN <<Narrative(field, "Updated", 0, "")>>
           ELSE TracksNarratives(before, after)
    [] field = "milestones" -> MilestonesNarratives(before, after)
    [] OTHER -> <<Narrative(field, "Updated", 0, "")>>

\* { summary: 'No changes detected', diffs: [] }
NoChangesDetected ==
  [summary |-> <<Narrative("", "No changes detected", 0, "")>>, diffs |-> <<>>]

\* The fields of the body that differ from the loaded document.
ChangedFields(body, existing) ==
  SelectSeq(STATE_FIELDS,
            LAMBDA f : /\ body[f] # Undefined
                       /\ \/ existing.fields[f] = Undefined
                          \/ JSONstringify(body[f]) # JSONstringify(existing.fields[f]))

\* describeStateChanges(body, existing, vertical): the summary is made of the
\* first two narratives (and the number of the others).
describeStateChanges(body, existing) ==
  LET changed == ChangedFields(body, existing)
      narratives ==
        Flatten([i \in 1..Len(changed) |->
                   buildNarratives(changed[i], existing.fields[changed[i]],
                                   body[changed[i]])], 1)
  IN IF Len(changed) = 0 THEN NoChangesDetected
     ELSE [summary |-> SubSeq(narratives, 1, IF Len(narratives) > 2 THEN 2
                                             ELSE Len(narratives)),
           diffs |-> narratives]

\* A handler's sentence as `details`.
Sentence(what) == [summary |-> <<Narrative("", what, 0, "")>>, diffs |-> <<>>]

\* No entry written to the audit log.
NoAudit == [written |-> FALSE, action |-> "", details |-> <<>>, diffs |-> <<>>]

\* logAudit(req, action, details): the entry it puts at the head of the log,
\* none when the summary is 'No changes detected'.  `diffs` is details.diffs
\* when details is an object with a non-empty summary and undefined otherwise:
\* a sentence has none, and an empty summary comes with no narrative.
logAudit(action, details) ==
  IF details.summary = NoChangesDetected.summary THEN NoAudit
  ELSE [written |-> TRUE, action |-> action, details |-> details.summary,
        diffs |-> details.diffs]

\* `audit` is the entry the handler has written to the audit log.
NoLast ==
  [req |-> NoReq, pre |-> NoFile, preProjects |-> <<>>, now |-> 0, status |-> 0,
   conflicts |-> <<>>, mergedState |-> NoResponseState, broadcast |-> NoBroadcast,
   audit |-> NoAudit]

\* The record of a handled request that answers with nothing but a status.
Handled(r, now, status) ==
  [NoLast EXCEPT !.req = r, !.now = now, !.status = status,
                 !.pre = stateFiles[r.key], !.preProjects = projectFiles[r.key]]

\* What the handler does after its loop: the file it writes, its audit entry,
\* its response and its broadcast.
saveStateOutcome(r, existing, res, now) ==
  [file |-> FileOf(res.state), status |-> 200, conflicts |-> res.rejected,
   mergedState |-> ResponseState(res.state, now),
   broadcast |-> BroadcastCall(r.key, res.state.updatedAt, r.sender),
   audit |-> logAudit("Updated state", describeStateChanges(r.body, existing))]

\* What saveStateHandler does to the state file of r.key, and its response.
saveStateResult(r, file, now) ==
  IF ~hasAnyField(r.body)
    THEN [file |-> file, status |-> 400, conflicts |-> <<>>,
          mergedState |-> NoResponseState, broadcast |-> NoBroadcast,
          audit |-> NoAudit]
    ELSE saveStateOutcome(r, loadJSON(file, EmptyDoc),
                          Reconcile(loadJSON(file, EmptyDoc), r.body,
                                    clientLoadedAtOf(r.loadedAt), now),
                          now)

\* saveJSON(getStateFile(req.params.key), state) and the response, given what
\* the handler has computed.
saveStateWrites(out) ==
  /\ stateFiles' = [stateFiles EXCEPT ![getStateFile(req.key)] = out.file]
  /\ last' = [Handled(req, clock, out.status) EXCEPT
                !.conflicts = out.conflicts, !.mergedState = out.mergedState,
                !.broadcast = out.broadcast, !.audit = out.audit]

saveStateHandler ==
  /\ req.op = "saveState"
  /\ saveStateWrites(saveStateResult(req, stateFiles[getStateFile(req.key)], clock))
  /\ req' = NoReq
  /\ UNCHANGED <<sessions, pure, verticalClients>>
  /\ UNCHANGED <<projectFiles, snapshotFiles, snapshotCount, clock>>
  /\ sockets' = broadcastUpdate(last'.broadcast, stateFiles', projectFiles', clock)

(***************************************************************************)
(* saveProjectsHandler: POST/PUT /api/verticals/:key/projects              *)
(***************************************************************************)
VALID_SIZES == {"", "XS", "S", "M", "L", "XL", "XXL", "XXXL"}

\* The validation loop: no project without id, no size outside VALID_SIZES.
ProjectsValid(items) ==
  \A i \in 1..Len(items) :
    /\ items[i].id # 0
    /\ items[i].impact \in VALID_SIZES
    /\ items[i].backend \in VALID_SIZES

\* (ids || []).filter(id => validIds.has(id)) for one track; `ids` is expected
\* to be an array. null gives []; on a number `.filter` is no function.
FilterThrows(ids) == ids.kind \notin {"arr", "null", "undefined"}
FilterIdsKeepsAll(ids, validIds) == Arr(ids.el)
FilterIds(ids, validIds) == Arr(SelectSeq(ids.el, LAMBDA id : id \in validIds))

\* Object.entries(existingState.tracks || {}): the tracks of an object; the
\* elements of an array, which are numbers; nothing for null or a number.
TrackEntries(tracks) ==
  CASE tracks.kind = "obj" -> tracks.kv
    [] tracks.kind = "arr" -> [i \in 1..Len(tracks.el) |-> P("index", Num(tracks.el[i]))]
    [] OTHER -> <<>>

\* Whether building cleanedTracks throws (a TypeError the handler catches).
CleanupThrows(tracks) ==
  \E i \in 1..Len(TrackEntries(tracks)) : FilterThrows(TrackEntries(tracks)[i].v)

cleanedTracks(tracks, validIds) ==
  Obj([i \in 1..Len(TrackEntries(tracks)) |->
         P(TrackEntries(tracks)[i].k, FilterIds(TrackEntries(tracks)[i].v, validIds))])

\* { ...existingState, tracks: cleanedTracks, updatedAt: ... }
CleanedState(existingState, validIds, now) ==
  [existingState EXCEPT
     !.fields["tracks"] = cleanedTracks(existingState.fields["tracks"], validIds),
     !.updatedAt = now]

saveProjectsHandler ==
  /\ req.op = "saveProjects"
  /\ req' = NoReq
  /\ UNCHANGED <<sessions, pure, verticalClients>>
  /\ UNCHANGED <<snapshotFiles, snapshotCount, clock>>
  /\ IF ~req.projects.isArray \/ ~ProjectsValid(req.projects.items)
       THEN /\ UNCHANGED <<stateFiles, projectFiles>>
            /\ last' = Handled(req, clock, 400)
       ELSE LET projects == req.projects.items
                validIds == {projects[i].id : i \in 1..Len(projects)}
                existingState == loadJSON(stateFiles[getStateFile(req.key)], DefaultStateDoc)
            IN \* saveJSON(getProjectsFile(key), projects) comes first
               /\ projectFiles' = [projectFiles EXCEPT ![req.key] =
                                     [exists |-> TRUE, items |-> projects]]
               /\ IF CleanupThrows(existingState.fields["tracks"])
                    THEN /\ UNCHANGED stateFiles
                         /\ last' = Handled(req, clock, 500)
                    ELSE /\ stateFiles' = [stateFiles EXCEPT ![getStateFile(req.key)] =
                                             FileOf(CleanedState(existingState, validIds, clock))]
                         /\ last' = [Handled(req, clock, 200) EXCEPT
                                       !.broadcast =
                                         BroadcastCall(req.key, clock, req.sender),
                                       !.audit =
                                         logAudit("Updated projects", Sentence("Saved"))]
  /\ sockets' = broadcastUpdate(last'.broadcast, stateFiles', projectFiles', clock)

(***************************************************************************)
(* The snapshot endpoints.                                                 *)
(***************************************************************************)
\* snapshots.find(s => s.id === req.params.id): its index, 0 if there is none.
FindSnapshotNewest(snapshots, id) == IF snapshots = <<>> THEN 0 ELSE 1
FindSnapshot(snapshots, id) ==
  IF \E i \in 1..Len(snapshots) : snapshots[i].id = id
    THEN CHOOSE i \in 1..Len(snapshots) : snapshots[i].id = id
    ELSE 0

\* POST /api/verticals/:key/snapshots
saveSnapshotHandler ==
  /\ req.op = "saveSnapshot"
  /\ req' = NoReq
  /\ UNCHANGED <<sessions, pure, ws>>
  /\ UNCHANGED <<stateFiles, projectFiles, clock>>
  /\ IF req.name = ""
       THEN /\ UNCHANGED <<snapshotFiles, snapshotCount>>
            /\ last' = Handled(req, clock, 400)
       ELSE LET snapshot == [id |-> snapshotCount + 1, name |-> req.name,
                             state |-> loadJSON(stateFiles[getStateFile(req.key)], EmptyDoc),
                             projects |-> loadProjects(projectFiles[req.key])]
            IN /\ snapshotFiles' = [snapshotFiles EXCEPT ![req.key] = <<snapshot>> \o @]
               /\ snapshotCount' = snapshotCount + 1
               /\ last' = [Handled(req, clock, 200) EXCEPT
                             !.audit = logAudit("Saved snapshot", Sentence("saved"))]

\* POST /api/verticals/:key/snapshots/:id/restore
restoreSnapshotHandler ==
  /\ req.op = "restoreSnapshot"
  /\ req' = NoReq
  /\ UNCHANGED <<sessions, pure, verticalClients>>
  /\ UNCHANGED <<snapshotFiles, snapshotCount, clock>>
  /\ LET i == FindSnapshot(snapshotFiles[req.key], req.id)
     IN IF i = 0
          THEN /\ UNCHANGED <<stateFiles, projectFiles>>
               /\ last' = Handled(req, clock, 404)
          ELSE LET snapshot == snapshotFiles[req.key][i]
               IN /\ stateFiles' = [stateFiles EXCEPT ![getStateFile(req.key)] = FileOf(snapshot.state)]
                  /\ projectFiles' = [projectFiles EXCEPT ![req.key] =
                                        [exists |-> TRUE, items |-> snapshot.projects]]
                  /\ last' = [Handled(req, clock, 200) EXCEPT
                                !.broadcast = BroadcastCall(req.key, clock, req.sender),
                                !.audit = logAudit("Restored snapshot",
                                                   Sentence("Restored"))]
  /\ sockets' = broadcastUpdate(last'.broadcast, stateFiles', projectFiles', clock)

\* DELETE /api/verticals/:key/snapshots/:id
deleteSnapshotHandler ==
  /\ req.op = "deleteSnapshot"
  /\ req' = NoReq
  /\ UNCHANGED <<sessions, pure, ws>>
  /\ UNCHANGED <<stateFiles, projectFiles, snapshotCount, clock>>
  /\ LET idx == FindSnapshot(snapshotFiles[req.key], req.id)
     IN IF idx = 0
          THEN /\ UNCHANGED snapshotFiles
               /\ last' = Handled(req, clock, 404)
          ELSE /\ snapshotFiles' = [snapshotFiles EXCEPT ![req.key] =
                                      SubSeq(@, 1, idx - 1) \o SubSeq(@, idx + 1, Len(@))]
               /\ last' = [Handled(req, clock, 200) EXCEPT
                             !.audit = logAudit("Deleted snapshot", Sentence("Deleted"))]

\* A request arrives at the server.
Arrive(r) ==
  /\ req.op = "none"
  /\ last.req.op = "none"
  /\ req' = r
  /\ UNCHANGED <<files, ws, sessions, pure, clock, last>>

\* The response of the request handled last reaches its client: the exchange
\* is over.
Respond ==
  /\ last.req.op # "none"
  /\ last' = NoLast
  /\ UNCHANGED <<files, ws, sessions, pure, clock, req>>

\* Time passes: Date.now() advances.
Tick ==
  /\ clock < MaxClock
  /\ req.op = "none"
  /\ last.req.op = "none"
  /\ clock' = clock + 1
  /\ UNCHANGED <<files, ws, sessions, pure, req, last>>

(***************************************************************************)
(* The requests of the model.                                              *)
(***************************************************************************)
SubValues == {Arr(<<1>>), Arr(<<1, 2>>)}
\* Objects with the two track keys and every choice of sub-values, one of them
\* with its keys in the other order, and one without the second key.
InputObjects ==
  {Obj(<<P("core-bonus", x), P("gateway", y)>>) : x \in SubValues, y \in SubValues}
  \cup {Obj(<<P("gateway", Arr(<<1>>)), P("core-bonus", Arr(<<1>>))>>),
        Obj(<<P("core-bonus", Arr(<<1>>))>>)}
InputArrays == {Arr(<<1>>), Arr(<<2, 1>>)}
\* An object whose sub-value is an object, with the sub-value's keys in both
\* orders.
NestedObjects ==
  {Obj(<<P("core-bonus", Obj(<<P("backend", Num(1)), P("qa", Num(2))>>))>>),
   Obj(<<P("core-bonus", Obj(<<P("qa", Num(2)), P("backend", Num(1))>>))>>)}
\* What clients send for a field: values of the field's own shape and values of
\* another shape.
InputValues(f) ==
  IF f = "tracks" THEN InputObjects \cup {Arr(<<1>>), Null}
  ELSE InputArrays \cup NestedObjects
       \cup {Obj(<<P("core-bonus", Arr(<<1>>))>>), Null, Num(7)}
\* The body with no state field, the bodies with one field, and bodies with
\* both tracks (an object) and milestones (an array).
InputBodies ==
  {NoBody}
  \cup UNION {{[NoBody EXCEPT ![f] = val] : val \in InputValues(f)} :
                f \in {"tracks", "milestones"}}
  \cup {[NoBody EXCEPT !["tracks"] = t, !["milestones"] = m] :
          t \in {Obj(<<P("core-bonus", Arr(<<1>>))>>),
                 Obj(<<P("core-bonus", Arr(<<1, 2>>)), P("gateway", Arr(<<1>>))>>)},
          m \in InputArrays}
\* The markers a client can hold: none, 0, or a time the server has issued.
InputLoadedAt(now) == {Missing} \cup (0..now)

\* The server starts by seeding the growth vertical when it has no projects
\* file: capacity defaults and the in-progress projects on the first track.
SeedState ==
  [EmptyDoc EXCEPT !.fields = [f \in Fields |->
     CASE f = "capacity" -> DEFAULT_CAPACITY
       [] f = "tracks" -> Obj(<<P("core-bonus", Arr(<<1>>)), P("gateway", Arr(<<>>))>>)
       [] OTHER -> Undefined]]

(***************************************************************************)
(* Overlapping state saves: the handler step by step.                      *)
(***************************************************************************)
\* The saves the server holds at once.
MaxInflight == 2
Slots == 1..MaxInflight

\* A save and the position of its handler: not started ("pending"), or
\* between loadJSON and saveJSON ("loaded") with `existing` and `now`.
NoSave == [pc |-> "none", req |-> NoReq, existing |-> EmptyDoc, now |-> 0]

\* Node runs a handler to its end before it starts another: saveStateHandler
\* is synchronous (readFileSync, writeFileSync, no await), so no handler
\* starts while one is between its load and its store.
EventLoopFreeAsync == TRUE
EventLoopFree == \A t \in Slots : inflight[t].pc # "loaded"

\* The server accepts a state save.
Accept(s, r) ==
  /\ inflight[s].pc = "none"
  /\ inflight' = [inflight EXCEPT ![s] = [NoSave EXCEPT !.pc = "pending", !.req = r]]
  /\ UNCHANGED <<files, ws, pure, clients, clock, req, last>>

\* saveStateHandler up to `const now = Date.now()`: the 400 answer, or the
\* load of the document.
Load(s) ==
  /\ inflight[s].pc = "pending"
  /\ EventLoopFree
  /\ LET sv == inflight[s]
     IN inflight' = [inflight EXCEPT ![s] =
          IF ~hasAnyField(sv.req.body) THEN NoSave
          ELSE [sv EXCEPT !.pc = "loaded", !.now = clock,
                          !.existing = loadJSON(stateFiles[sv.req.key], EmptyDoc)]]
  /\ UNCHANGED <<files, ws, pure, clients, clock, req, last>>

\* saveStateHandler from the reconcile loop to saveJSON and the response.
Store(s) ==
  /\ inflight[s].pc = "loaded"
  /\ LET sv == inflight[s]
         res == Reconcile(sv.existing, sv.req.body, clientLoadedAtOf(sv.req.loadedAt),
                          sv.now)
     IN stateFiles' = [stateFiles EXCEPT ![sv.req.key] = FileOf(res.state)]
  /\ inflight' = [inflight EXCEPT ![s] = NoSave]
  /\ UNCHANGED <<projectFiles, snapshotFiles, snapshotCount, pure, ws, clients, clock, req, last>>

(***************************************************************************)
(* The browser sessions and the client-side deep merge.                    *)
(***************************************************************************)
\* merged[key] = val: in place if the key exists, appended otherwise.
SetKey(o, key, val) ==
  IF HasKey(o, key)
    THEN Obj([i \in 1..Len(o.kv) |-> IF o.kv[i].k = key THEN P(key, val) ELSE o.kv[i]])
    ELSE Obj(Append(o.kv, P(key, val)))
\* delete o[key]
DeleteKey(o, key) == Obj(SelectSeq(o.kv, LAMBDA p : p.k # key))

\* Mutant of OverlayLoop: the server's value is taken for every key of
\* latestServer that the user still has.
RECURSIVE OverlayLoopServerWins(_, _, _, _, _)
OverlayLoopServerWins(i, acc, localValue, latestServer, captured) ==
  IF i > Len(latestServer.kv) THEN acc
  ELSE OverlayLoopServerWins(
         i + 1,
         [acc EXCEPT !.merged = SetKey(@, latestServer.kv[i].k, latestServer.kv[i].v)],
         localValue, latestServer, captured)

\* The loop of deepMergeObject over Object.keys(latestServer), from the i-th
\* key on: `acc` holds merged and overlaid.
RECURSIVE OverlayLoop(_, _, _, _, _)
OverlayLoop(i, acc, localValue, latestServer, captured) ==
  IF i > Len(latestServer.kv) THEN acc
  ELSE LET subKey == latestServer.kv[i].k
           next ==
             IF ~HasKey(captured, subKey)
               THEN [merged |-> SetKey(acc.merged, subKey, latestServer.kv[i].v),
                     overlaid |-> Append(acc.overlaid, "+" \o subKey)]
             ELSE IF /\ HasKey(localValue, subKey)
                     /\ JSONstringify(Get(localValue, subKey))
                          = JSONstringify(Get(captured, subKey))
               THEN [acc EXCEPT !.merged = SetKey(@, subKey, latestServer.kv[i].v)]
             ELSE acc
       IN OverlayLoop(i + 1, next, localValue, latestServer, captured)

\* What deepMergeObject returns when it merges nothing: localValue itself.
Unmerged(localValue) ==
  [isMerge |-> FALSE, merged |-> localValue, overlaid |-> <<>>, deleted |-> <<>>]

\* The same function with the overlay left out: the user's version as it is.
deepMergeObjectLocalOnly(localValue, latestServer, capturedServer) ==
  [Unmerged(localValue) EXCEPT !.isMerge = localValue.kind = "obj"]

\* deepMergeObject(localValue, latestServer, capturedServer); the servers'
\* values are keyed objects, or nothing.
deepMergeObject(localValue, latestServer, capturedServer) ==
  IF localValue.kind # "obj" THEN Unmerged(localValue)
  ELSE IF Falsy(latestServer) THEN Unmerged(localValue)
  ELSE LET captured == IF Falsy(capturedServer) THEN latestServer ELSE capturedServer
           out == OverlayLoop(1, [merged |-> localValue, overlaid |-> <<>>],
                              localValue, latestServer, captured)
       IN [isMerge |-> TRUE, merged |-> out.merged, overlaid |-> out.overlaid,
           deleted |-> SelectSeq(ObjectKeys(captured),
                                 LAMBDA subKey : ~HasKey(localValue, subKey))]

\* GET /api/verticals/:key/state: the document, defaulted if there is no
\* file, and _loadedAt.
getState(file, now) == [state |-> loadJSON(file, DefaultStateDoc), loadedAt |-> now]

\* GET /api/verticals/:key/poll: updatedAt (0: null), the _fieldTs map of the
\* stored document or {}, and the number of projects.
getPoll(file, projects) ==
  LET state == loadJSON(file, EmptyDoc)
  IN [updatedAt |-> state.updatedAt, hasFieldTs |-> TRUE, fieldTs |-> state.fieldTs,
      projectCount |-> Len(loadProjects(projects)),
      projectsUpdatedAt |-> IF Len(loadProjects(projects)) > 0 THEN state.updatedAt
                            ELSE 0]

\* The sessions, the vertical they work on and the object field they edit.
ClientIds == {1, 2}
ClientKey == "growth"
ClientField == "capacity"

\* A session goes from "new" to "loaded" (the page has the state), "edited"
\* (the user changed the field) and "saved" (the change is sent).
NoClient ==
  [pc |-> "new", loadedAt |-> 0, captured |-> Undefined, latest |-> Undefined,
   localValue |-> Undefined]

Idle == req.op = "none" /\ last.req.op = "none"

\* The page loads the state: server value, baseline and local value agree.
ClientLoad(c) ==
  /\ Idle
  /\ clients[c].pc = "new"
  /\ LET got == getState(stateFiles[ClientKey], clock)
         v == got.state.fields[ClientField]
     IN clients' = [clients EXCEPT ![c] =
                      [NoClient EXCEPT !.pc = "loaded", !.loadedAt = got.loadedAt,
                                       !.captured = v, !.latest = v,
                                       !.localValue = v]]
  /\ UNCHANGED <<files, ws, pure, inflight, clock, req, last>>

\* The user sets a sub-key of the field, or removes it.
ClientEdit(c, subKey, val) ==
  /\ Idle
  /\ clients[c].pc = "loaded"
  /\ clients[c].localValue.kind = "obj"
  /\ LET edited == IF val = Undefined THEN DeleteKey(clients[c].localValue, subKey)
                   ELSE SetKey(clients[c].localValue, subKey, val)
     IN /\ edited # clients[c].localValue
        /\ clients' = [clients EXCEPT ![c].localValue = edited, ![c].pc = "edited"]
  /\ UNCHANGED <<files, ws, pure, inflight, clock, req, last>>

\* An update (broadcast or poll) brings the server's value of the field; the
\* session keeps its load marker.
ClientReceive(c) ==
  /\ Idle
  /\ clients[c].pc \in {"loaded", "edited"}
  /\ LET v == loadJSON(stateFiles[ClientKey], EmptyDoc).fields[ClientField]
     IN /\ v # clients[c].latest
        /\ clients' = [clients EXCEPT ![c].latest = v]
  /\ UNCHANGED <<files, ws, pure, inflight, clock, req, last>>

\* The value a session sends for the field: its local value, deep-merged
\* with the latest server value against the captured one.
OutgoingValue(cl) == deepMergeObject(cl.localValue, cl.latest, cl.captured).merged

\* The session saves the field, with the _loadedAt of its load.
ClientSave(c) ==
  /\ clients[c].pc = "edited"
  /\ Idle
  /\ req' = [SaveStateReq(ClientKey,
                          [NoBody EXCEPT ![ClientField] = OutgoingValue(clients[c])],
                          clients[c].loadedAt) EXCEPT !.sender = c]
  /\ clients' = [clients EXCEPT ![c].pc = "saved"]
  /\ UNCHANGED <<files, ws, pure, inflight, clock, last>>

\* The seeded projects: two of them, the first in progress.
SEED == <<Project(1, "L", "S"), Project(2, "XL", "XS")>>

\* No call of a pure function, and no result.
NoCall == [fn |-> "none", args |-> <<>>]
NoResult == [done |-> FALSE, value |-> Undefined]
\* No object allocated.  `cells` holds the allocated objects, an object's
\* address being its index; `results` the references the calls returned;
\* `touched` the result the caller has just changed (0: none).
NoHeap == [cells |-> <<>>, results |-> <<>>, mutations |-> 0, touched |-> 0]

\* The server after its start: the growth vertical seeded, no sessions, no
\* requests.
ServerInit ==
  /\ stateFiles = [key \in Verticals |->
                     IF key = "growth" THEN FileOf(SeedState) ELSE NoFile]
  /\ projectFiles = [key \in Verticals |->
                       IF key = "growth" THEN [exists |-> TRUE, items |-> SEED]
                       ELSE [exists |-> FALSE, items |-> <<>>]]
  /\ snapshotFiles = [key \in Verticals |-> <<>>]
  /\ snapshotCount = 0
  /\ clients = [c \in ClientIds |-> NoClient]
  /\ inflight = [s \in Slots |-> NoSave]
  /\ sockets = [w \in ConnIds |-> NoSocket]
  /\ verticalClients = [v \in WsVerticals |-> {}]
  /\ clock = 1
  /\ req = NoReq
  /\ last = NoLast

Init ==
  /\ ServerInit
  /\ call = NoCall
  /\ result = NoResult
  /\ heap = NoHeap

Next ==
  \/ \E body \in InputBodies, la \in InputLoadedAt(clock) :
       Arrive(SaveStateReq("growth", body, la))
  \/ saveStateHandler
  \/ Respond
  \/ Tick

Spec == Init /\ [][Next]_vars

(***************************************************************************)
(* The server with all its writing routes, on the seeded vertical.          *)
(***************************************************************************)
\* The snapshots created in one behaviour.
MaxSnapshots == 1

StoreTracks ==
  {Obj(<<P("core-bonus", Arr(<<1, 2>>)), P("gateway", Arr(<<>>))>>),
   Obj(<<P("core-bonus", Num(7))>>)}
StoreBodies == {[NoBody EXCEPT !["tracks"] = t] : t \in StoreTracks}
StoreProjects ==
  {ProjectsArray(<<Project(2, "", "M")>>),
   ProjectsArray(<<Project(0, "L", "S")>>), ProjectsArray(<<Project(1, "HUGE", "S")>>),
   NotAnArray}

StoreArrive ==
  \/ \E body \in StoreBodies, la \in 0..clock :
       Arrive(SaveStateReq("growth", body, la))
  \/ \E projects \in StoreProjects :
       Arrive(SaveProjectsReq("growth", projects))
  \/ \E name \in {"", "v1"} :
       snapshotCount < MaxSnapshots /\ Arrive(SaveSnapshotReq("growth", name))
  \/ \E id \in 1..(MaxSnapshots + 1) :
       Arrive(RestoreSnapshotReq("growth", id))
  \/ \E id \in 1..(MaxSnapshots + 1) :
       Arrive(DeleteSnapshotReq("growth", id))

StoreNext ==
  \/ StoreArrive
  \/ saveStateHandler
  \/ saveProjectsHandler
  \/ saveSnapshotHandler
  \/ restoreSnapshotHandler
  \/ deleteSnapshotHandler
  \/ Respond
  \/ Tick

SpecStore == Init /\ [][StoreNext]_vars

(***************************************************************************)
(* The server with all its writing routes, on both verticals.              *)
(***************************************************************************)
\* The bodies of the state saves.
VerticalBodies ==
  {NoBody,
   [NoBody EXCEPT !["milestones"] = Arr(<<1>>)],
   [NoBody EXCEPT !["tracks"] = Obj(<<P("core-bonus", Arr(<<1, 2>>))>>)]}

NamespaceArrive ==
  \/ \E key \in Verticals, body \in VerticalBodies :
       Arrive(SaveStateReq(key, body, 0))
  \/ \E key \in Verticals :
       Arrive(SaveProjectsReq(key, ProjectsArray(<<Project(1, "L", "S")>>)))
  \/ \E key \in Verticals :
       snapshotCount < MaxSnapshots /\ Arrive(SaveSnapshotReq(key, "v1"))
  \/ \E key \in Verticals, id \in 1..MaxSnapshots :
       Arrive(RestoreSnapshotReq(key, id))
  \/ \E key \in Verticals, id \in 1..MaxSnapshots :
       Arrive(DeleteSnapshotReq(key, id))

NamespaceNext ==
  \/ NamespaceArrive
  \/ saveStateHandler
  \/ saveProjectsHandler
  \/ saveSnapshotHandler
  \/ restoreSnapshotHandler
  \/ deleteSnapshotHandler
  \/ Respond

SpecNamespaces == Init /\ [][NamespaceNext]_vars

(***************************************************************************)
(* Project saves cleaning the tracks that state saves have stored.         *)
(***************************************************************************)
CleanupTracks ==
  {Obj(<<P("core-bonus", Arr(<<3, 1, 2>>)), P("gateway", Arr(<<4>>))>>),
   Obj(<<P("core-bonus", Arr(<<2, 2, 1>>)), P("gateway", Null)>>),
   Obj(<<P("core-bonus", Num(7))>>),
   Arr(<<1, 2>>), Null}
CleanupProjects ==
  {ProjectsArray(<<>>), ProjectsArray(<<Project(2, "", "M")>>),
   ProjectsArray(<<Project(1, "L", "S"), Project(2, "XL", "XS")>>),
   ProjectsArray(<<Project(2, "L", "S"), Project(3, "", "")>>),
   ProjectsArray(<<Project(1, "HUGE", "S")>>), NotAnArray}

CleanupNext ==
  \/ \E tracks \in CleanupTracks :
       Arrive(SaveStateReq("growth", [NoBody EXCEPT !["tracks"] = tracks], 0))
  \/ \E projects \in CleanupProjects :
       Arrive(SaveProjectsReq("growth", projects))
  \/ saveStateHandler
  \/ saveProjectsHandler
  \/ Respond

SpecCleanup == Init /\ [][CleanupNext]_vars

(***************************************************************************)
(* The WebSocket server: connections, subscriptions and broadcasts.        *)
(***************************************************************************)
\* The messages sent to a connection that its client has not taken yet.
MaxInbox == 1

\* What a client sends: a subscribe for a vertical, a subscribe without one,
\* a message of another type, null, and text that is no JSON.
Subscribe(vertical) == [json |-> TRUE, type |-> "subscribe", vertical |-> vertical]
WsMessages ==
  {Subscribe(v) : v \in WsVerticals}
  \cup {Subscribe(""),
        [json |-> TRUE, type |-> "ping", vertical |-> "growth"],
        [json |-> TRUE, type |-> "null", vertical |-> ""],
        [json |-> FALSE, type |-> "subscribe", vertical |-> "growth"]}

\* No event is being handled: the server runs one callback at a time.
ServerIdle ==
  /\ req.op = "none" /\ last.req.op = "none"
  /\ \A w \in ConnIds : sockets[w].raw = NoRaw

\* wss.on('connection'): the connection is open and gets the welcome.
Connect(w) ==
  /\ ServerIdle
  /\ sockets[w].readyState = CONNECTING
  /\ sockets' = [sockets EXCEPT ![w].readyState = OPEN,
                                ![w].inbox = Append(@, Connected)]
  /\ UNCHANGED <<files, sessions, pure, verticalClients, clock, req, last>>

\* A message of the client arrives on an open connection.
Send(w, raw) ==
  /\ ServerIdle
  /\ sockets[w].readyState = OPEN
  /\ sockets' = [sockets EXCEPT ![w].raw = raw]
  /\ UNCHANGED <<files, sessions, pure, verticalClients, clock, req, last>>

\* Whether the handler subscribes: JSON.parse(raw) does not throw, and
\* msg.type === 'subscribe' && msg.vertical.
SubscribesAlways(raw) == raw.type = "subscribe" /\ raw.vertical # ""
Subscribes(raw) == raw.json /\ raw.type = "subscribe" /\ raw.vertical # ""

\* verticalClients.get(subscribedVertical).delete(ws), if there is a
\* subscribedVertical.
UnsubscribeNever(w) == verticalClients
Unsubscribe(w) ==
  IF sockets[w].subscribedVertical # ""
    THEN [verticalClients EXCEPT ![sockets[w].subscribedVertical] = @ \ {w}]
    ELSE verticalClients

\* ws.on('message')
Message(w) ==
  /\ sockets[w].raw # NoRaw
  /\ IF Subscribes(sockets[w].raw)
       THEN /\ verticalClients' =
                 [Unsubscribe(w) EXCEPT ![sockets[w].raw.vertical] = @ \cup {w}]
            /\ sockets' = [sockets EXCEPT
                 ![w].subscribedVertical = sockets[w].raw.vertical,
                 ![w].raw = NoRaw]
       ELSE /\ sockets' = [sockets EXCEPT ![w].raw = NoRaw]
            /\ UNCHANGED verticalClients
  /\ UNCHANGED <<files, sessions, pure, clock, req, last>>

\* The closing handshake starts: the connection is no longer open.
BeginClose(w) ==
  /\ ServerIdle
  /\ sockets[w].readyState = OPEN
  /\ sockets' = [sockets EXCEPT ![w].readyState = CLOSING]
  /\ UNCHANGED <<files, sessions, pure, verticalClients, clock, req, last>>

\* ws.on('close')
Close(w) ==
  /\ ServerIdle
  /\ sockets[w].readyState \in {OPEN, CLOSING}
  /\ verticalClients' = Unsubscribe(w)
  /\ sockets' = [sockets EXCEPT ![w].readyState = CLOSED]
  /\ UNCHANGED <<files, sessions, pure, clock, req, last>>

\* The client takes the next message sent to it.
Receive(w) ==
  /\ sockets[w].inbox # <<>>
  /\ sockets' = [sockets EXCEPT ![w].inbox = Tail(@)]
  /\ UNCHANGED <<files, sessions, pure, verticalClients, clock, req, last>>

\* The x-ws-id headers of the requests (0: none).
SenderIds == {0, 7}
SocketsArrive ==
  /\ ServerIdle
  /\ \A w \in ConnIds : Len(sockets[w].inbox) < MaxInbox
  /\ \/ \E sender \in SenderIds :
          Arrive([SaveStateReq("growth", [NoBody EXCEPT !["milestones"] = Arr(<<1>>)], 0)
                    EXCEPT !.sender = sender])
     \/ \E sender \in SenderIds :
          Arrive([SaveProjectsReq("growth", ProjectsArray(<<Project(1, "L", "S")>>))
                    EXCEPT !.sender = sender])

SocketsNext ==
  \/ \E w \in ConnIds : Connect(w)
  \/ \E w \in ConnIds, raw \in WsMessages : Send(w, raw)
  \/ \E w \in ConnIds : Message(w)
  \/ \E w \in ConnIds : BeginClose(w)
  \/ \E w \in ConnIds : Close(w)
  \/ \E w \in ConnIds : Receive(w)
  \/ SocketsArrive
  \/ saveStateHandler
  \/ saveProjectsHandler
  \/ Respond

SpecSockets == Init /\ [][SocketsNext]_vars

(***************************************************************************)
(* Properties.  They speak of the state save handled last: its request     *)
(* (last.req), the document it loaded (LoadedDoc), the time it read        *)
(* (last.now), its response, and the document it stored (StoredDoc).       *)
(***************************************************************************)
StateSaved == last.req.op = "saveState" /\ last.status = 200
LoadedDoc == loadJSON(last.pre, EmptyDoc)
StoredDoc == stateFiles[last.req.key].doc
SentLoadedAt == IF last.req.loadedAt = Missing THEN 0 ELSE last.req.loadedAt
Sent(f) == last.req.body[f] # Undefined
InConflicts(f) == \E i \in 1..Len(last.conflicts) : last.conflicts[i] = f
KeyedObject(v) == v.kind = "obj"
\* The field's timestamp is newer than the client's non-zero marker.
Stale(f) == SentLoadedAt # 0 /\ LoadedDoc.fieldTs[f] > SentLoadedAt
\* Two keyed objects differ in a sub-key: one has a key the other lacks, or
\* they hold different values for a key.
DifferInSubKey(a, b) ==
  \E key \in KeySet(a) \cup KeySet(b) : ~DeepEqual(Get(a, key), Get(b, key))

(***************************************************************************)
(* The server and the sessions that edit one object field.                 *)
(***************************************************************************)
EditKeys == {"backend", "frontend", "design"}
EditValues == {Num(50), Undefined}

ClientNext ==
  \/ \E c \in ClientIds : ClientLoad(c)
  \/ \E c \in ClientIds, subKey \in EditKeys, val \in EditValues :
       ClientEdit(c, subKey, val)
  \/ \E c \in ClientIds : ClientReceive(c)
  \/ \E c \in ClientIds : ClientSave(c)
  \/ saveStateHandler
  \/ Respond
  \/ Tick

SpecClient == Init /\ [][ClientNext]_vars

(***************************************************************************)
(* Pages that load the state and save a field later with the _loadedAt of  *)
(* their load, while others save.                                          *)
(***************************************************************************)
\* The state document as a JSON object: what GET state sends of the fields.
FieldsObject(fields) ==
  Obj(SelectSeq([i \in 1..Len(STATE_FIELDS) |-> P(STATE_FIELDS[i], fields[STATE_FIELDS[i]])],
                LAMBDA p : p.v # Undefined))

\* The page loads the state: it keeps the document and _loadedAt.
PageLoad(c) ==
  /\ Idle
  /\ clients[c].pc = "new"
  /\ LET got == getState(stateFiles[ClientKey], clock)
     IN clients' = [clients EXCEPT ![c] =
                      [NoClient EXCEPT !.pc = "loaded", !.loadedAt = got.loadedAt,
                                       !.captured = FieldsObject(got.state.fields)]]
  /\ UNCHANGED <<files, ws, pure, inflight, clock, req, last>>

\* The page saves a field, with the _loadedAt of its load.
PageSave(c, f, v) ==
  /\ Idle
  /\ clients[c].pc = "loaded"
  /\ req' = [SaveStateReq(ClientKey, [NoBody EXCEPT ![f] = v], clients[c].loadedAt)
               EXCEPT !.sender = c]
  /\ clients' = [clients EXCEPT ![c].pc = "saved"]
  /\ UNCHANGED <<files, ws, pure, inflight, clock, last>>

\* What the pages save: a list field and a keyed field.
PageValues(f) ==
  IF f = "milestones" THEN {Arr(<<1>>), Arr(<<2>>)}
  ELSE {Obj(<<P("core-bonus", Arr(<<1>>)), P("gateway", Arr(<<>>))>>),
        Obj(<<P("core-bonus", Arr(<<1, 2>>)), P("gateway", Arr(<<>>))>>)}

StaleNext ==
  \/ \E c \in ClientIds : PageLoad(c)
  \/ \E c \in ClientIds, f \in {"milestones", "tracks"} :
       \E v \in PageValues(f) : PageSave(c, f, v)
  \/ saveStateHandler
  \/ Respond
  \/ Tick

SpecStale == Init /\ [][StaleNext]_vars

\* One page, and project saves that take projects away.
StaleProjectsNext ==
  \/ PageLoad(1)
  \/ \E v \in PageValues("tracks") : PageSave(1, "tracks", v)
  \/ \E projects \in {<<Project(2, "XL", "XS")>>, <<Project(1, "L", "S"), Project(2, "XL", "XS")>>} :
       Arrive(SaveProjectsReq(ClientKey, ProjectsArray(projects)))
  \/ saveStateHandler
  \/ saveProjectsHandler
  \/ Respond
  \/ Tick

SpecStaleProjects == Init /\ [][StaleProjectsNext]_vars

\* One page, state saves of others before the page loads, and snapshots
\* saved and restored at any time: once the page has loaded, only a restore
\* writes the state document.
RestoreNext ==
  \/ \E v \in PageValues("milestones") :
       /\ clients[1].pc = "new"
       /\ Arrive(SaveStateReq(ClientKey, [NoBody EXCEPT !["milestones"] = v], 0))
  \/ snapshotCount < MaxSnapshots /\ Arrive(SaveSnapshotReq(ClientKey, "v1"))
  \/ \E id \in 1..MaxSnapshots : Arrive(RestoreSnapshotReq(ClientKey, id))
  \/ PageLoad(1)
  \/ \E v \in PageValues("milestones") : PageSave(1, "milestones", v)
  \/ saveStateHandler
  \/ saveSnapshotHandler
  \/ restoreSnapshotHandler
  \/ Respond
  \/ Tick

SpecRestore == Init /\ [][RestoreNext]_vars

(***************************************************************************)
(* A session that keeps the _loadedAt of whatever the server sent it last: *)
(* GET state, the response of its own save, or a broadcast on its          *)
(* connection.  Others save state and projects meanwhile.                  *)
(***************************************************************************)
\* The connection of the session.
SessionConn == "w1"

\* What a session keeps of a document the server sent, besides _loadedAt.
Received(doc) == [fields |-> doc.fields, updatedAt |-> doc.updatedAt]

\* GET /api/verticals/:key/state, at any time the session has no save under
\* way.
SessionLoad(c) ==
  /\ ServerIdle
  /\ clients[c].pc # "saved"
  /\ LET got == getState(stateFiles[ClientKey], clock)
     IN clients' = [clients EXCEPT ![c] =
                      [NoClient EXCEPT !.pc = "loaded", !.loadedAt = got.loadedAt,
                                       !.captured = Received(got.state)]]
  /\ UNCHANGED <<files, ws, pure, inflight, clock, req, last>>

\* The session saves a field with the _loadedAt it holds.
SessionSave(c, f, v) ==
  /\ ServerIdle
  /\ \A w \in ConnIds : Len(sockets[w].inbox) < MaxInbox
  /\ clients[c].pc = "loaded"
  /\ req' = [SaveStateReq(ClientKey, [NoBody EXCEPT ![f] = v], clients[c].loadedAt)
               EXCEPT !.sender = c]
  /\ clients' = [clients EXCEPT ![c].pc = "saved"]
  /\ UNCHANGED <<files, ws, pure, inflight, clock, last>>

\* The response of the session's save arrives: mergedState and its _loadedAt.
SessionResponse(c) ==
  /\ last.req.op # "none"
  /\ last.req.sender = c
  /\ last' = NoLast
  /\ clients' = [clients EXCEPT ![c] =
                   IF last.status = 200
                     THEN [@ EXCEPT !.pc = "loaded",
                                    !.loadedAt = last.mergedState.loadedAt,
                                    !.captured = Received(last.mergedState)]
                     ELSE [@ EXCEPT !.pc = "loaded"]]
  /\ UNCHANGED <<files, ws, pure, inflight, clock, req>>

\* The session takes the next message of its connection: an update brings
\* the state and its _loadedAt.
SessionUpdate(c) ==
  /\ sockets[SessionConn].inbox # <<>>
  /\ sockets' = [sockets EXCEPT ![SessionConn].inbox = Tail(@)]
  /\ LET msg == Head(sockets[SessionConn].inbox)
     IN clients' = [clients EXCEPT ![c] =
                      IF msg.type = "update" /\ @.pc # "new"
                        THEN [@ EXCEPT !.loadedAt = msg.state.loadedAt,
                                       !.captured = Received(msg.state)]
                        ELSE @]
  /\ UNCHANGED <<files, pure, verticalClients, inflight, clock, req, last>>

\* The writes of others: a state save that forces its value, and a project
\* save.
OthersArrive ==
  /\ ServerIdle
  /\ \A w \in ConnIds : Len(sockets[w].inbox) < MaxInbox
  /\ \/ \E v \in PageValues("milestones") :
          Arrive(SaveStateReq(ClientKey, [NoBody EXCEPT !["milestones"] = v], 0))
     \/ Arrive(SaveProjectsReq(ClientKey, ProjectsArray(<<Project(2, "XL", "XS")>>)))

MarkerNext ==
  \/ Connect(SessionConn)
  \/ Send(SessionConn, Subscribe(ClientKey))
  \/ Message(SessionConn)
  \/ SessionLoad(1)
  \/ \E f \in {"milestones", "tracks"} : \E v \in PageValues(f) : SessionSave(1, f, v)
  \/ SessionResponse(1)
  \/ SessionUpdate(1)
  \/ OthersArrive
  \/ saveStateHandler
  \/ saveProjectsHandler
  \/ last.req.sender = 0 /\ Respond
  \/ Tick

SpecMarker == Init /\ [][MarkerNext]_vars

(***************************************************************************)
(* The server with several state saves accepted at once.                   *)
(***************************************************************************)
OverlapBodies ==
  {NoBody,
   [NoBody EXCEPT !["capacity"] = Obj(<<P("backend", Num(50))>>)],
   [NoBody EXCEPT !["milestones"] = Arr(<<1>>)]}

OverlapNext ==
  \/ \E s \in Slots, body \in OverlapBodies, la \in {0, clock} :
       Accept(s, SaveStateReq("growth", body, la))
  \/ \E s \in Slots : Load(s)
  \/ \E s \in Slots : Store(s)
  \/ Tick

SpecOverlap == Init /\ [][OverlapNext]_vars

(***************************************************************************)
(* The server handling state saves of both verticals, the seeded one and   *)
(* the one without files.                                                  *)
(***************************************************************************)
VerticalsNext ==
  \/ \E key \in Verticals, body \in VerticalBodies, la \in {0, clock} :
       Arrive(SaveStateReq(key, body, la))
  \/ saveStateHandler
  \/ Respond
  \/ Tick

SpecVerticals == Init /\ [][VerticalsNext]_vars

(***************************************************************************)
(* The shared pure functions, applied to arguments drawn at the start.     *)
(***************************************************************************)
\* Sub-values: numbers, and one object with its keys in both orders.
MergeSubValues ==
  {Undefined, Num(1), Num(2),
   Obj(<<P("x", Num(1)), P("y", Num(2))>>), Obj(<<P("y", Num(2)), P("x", Num(1))>>)}
\* The objects with sub-keys among a and b (undefined: the key is absent).
ObjectOf(a, b) ==
  Obj((IF a = Undefined THEN <<>> ELSE <<P("a", a)>>)
      \o (IF b = Undefined THEN <<>> ELSE <<P("b", b)>>))
MergeObjects == {ObjectOf(a, b) : a \in MergeSubValues, b \in MergeSubValues}
DeepMergeCalls ==
  {[fn |-> "deepMergeObject", args |-> <<localValue, latestServer, capturedServer>>] :
     localValue \in MergeObjects \cup {Arr(<<1>>), Null},
     latestServer \in MergeObjects \cup {Null, Undefined},
     capturedServer \in MergeObjects \cup {Undefined}}

\* The track keys migrateTracks guarantees, in the order it adds them.
TRACK_KEYS == <<"core-bonus", "gateway", "seo-aff">>

\* { ...tracks }: the own properties of an object, none of null or undefined.
Spread(tracks) == IF tracks.kind = "obj" THEN Obj(tracks.kv) ELSE Obj(<<>>)

\* if (!result[key]) result[key] = [], on the copy `tracks`, for the track
\* keys from the i-th on.
RECURSIVE DefaultTracks(_, _)
DefaultTracks(tracks, i) ==
  IF i > Len(TRACK_KEYS) THEN tracks
  ELSE DefaultTracks(IF Falsy(Get(tracks, TRACK_KEYS[i]))
                       THEN SetKey(tracks, TRACK_KEYS[i], Arr(<<>>))
                       ELSE tracks,
                     i + 1)

\* The same function renaming whenever the legacy key is there.
migrateTracksAlwaysRename(tracks) ==
  LET copy == Spread(tracks)
      renamed == IF HasKey(copy, "gamification")
                   THEN DeleteKey(SetKey(copy, "gateway", Get(copy, "gamification")),
                                  "gamification")
                   ELSE copy
  IN DefaultTracks(renamed, 1)

\* migrateTracks(tracks)
migrateTracks(tracks) ==
  LET copy == Spread(tracks)
      renamed == IF HasKey(copy, "gamification") /\ ~HasKey(copy, "gateway")
                   THEN DeleteKey(SetKey(copy, "gateway", Get(copy, "gamification")),
                                  "gamification")
                   ELSE copy
  IN DefaultTracks(renamed, 1)

\* The properties of a tracks document, each present or not (undefined: absent).
TracksOf(gamification, gateway, coreBonus, seoAff) ==
  Obj((IF gamification = Undefined THEN <<>> ELSE <<P("gamification", gamification)>>)
      \o (IF coreBonus = Undefined THEN <<>> ELSE <<P("core-bonus", coreBonus)>>)
      \o (IF gateway = Undefined THEN <<>> ELSE <<P("gateway", gateway)>>)
      \o (IF seoAff = Undefined THEN <<>> ELSE <<P("seo-aff", seoAff)>>))
\* Track values: lists of project ids, and null as any JSON body can carry.
MigrateTracksCalls ==
  {[fn |-> "migrateTracks", args |-> <<tracks>>] :
     tracks \in {TracksOf(gm, gw, cb, sa) :
                   gm \in {Undefined, Null, Arr(<<>>), Arr(<<1>>)},
                   gw \in {Undefined, Null, Arr(<<>>), Arr(<<2>>)},
                   cb \in {Undefined, Arr(<<3>>)},
                   sa \in {Undefined, Arr(<<4, 5>>)}}
                \cup {Null, Undefined}}

PureInit ==
  /\ ServerInit
  /\ call \in DeepMergeCalls \cup MigrateTracksCalls
  /\ result = NoResult
  /\ heap = NoHeap

\* The call of deepMergeObject returns.
ApplyDeepMerge ==
  /\ call.fn = "deepMergeObject"
  /\ ~result.done
  /\ result' = [done |-> TRUE,
                value |-> deepMergeObject(call.args[1], call.args[2], call.args[3])]
  /\ UNCHANGED <<files, ws, sessions, call, heap, clock, req, last>>

\* The call of migrateTracks returns.
ApplyMigrateTracks ==
  /\ call.fn = "migrateTracks"
  /\ ~result.done
  /\ result' = [done |-> TRUE, value |-> migrateTracks(call.args[1])]
  /\ UNCHANGED <<files, ws, sessions, call, heap, clock, req, last>>

PureNext ==
  \/ ApplyDeepMerge
  \/ ApplyMigrateTracks

SpecPure == PureInit /\ [][PureNext]_vars

(***************************************************************************)
(* The defaulting helpers applied to documents that live on a heap, where  *)
(* two documents can hold the same nested object.  A property of a heap    *)
(* object holds a number, null, or the reference of a nested object; a     *)
(* nested object holds numbers only.                                       *)
(***************************************************************************)
\* The calls made on one input document, and the mutations the caller makes
\* of what they returned.
MaxCalls == 2
MaxMutations == 1

Ref(a) == [kind |-> "ref", n |-> a, el |-> <<>>, kv |-> <<>>]

\* The properties props[i..] stored: every object or array literal among their
\* values becomes a new heap object, whatever is a reference stays the same
\* reference.
RECURSIVE AllocProps(_, _, _)
AllocProps(cells, props, i) ==
  IF i > Len(props) THEN [cells |-> cells, kv |-> <<>>]
  ELSE LET v == props[i].v
           literal == v.kind \in {"arr", "obj"}
           cells1 == IF literal THEN Append(cells, v) ELSE cells
           slot == IF literal THEN Ref(Len(cells1)) ELSE v
           rest == AllocProps(cells1, props, i + 1)
       IN [cells |-> rest.cells, kv |-> <<P(props[i].k, slot)>> \o rest.kv]
\* A new object with the properties of doc.
Alloc(cells, doc) ==
  LET a == AllocProps(cells, doc.kv, 1)
  IN [cells |-> Append(a.cells, Obj(a.kv)), ref |-> Ref(Len(a.cells) + 1)]

\* What a function sees of its argument without following its properties:
\* the object's own properties, references included.
OwnProps(cells, v) == IF v.kind = "ref" THEN cells[v.n] ELSE v
\* The JSON value of v, its nested objects followed: what JSON.stringify(v)
\* serialises.
Deref(cells, v) ==
  LET c == OwnProps(cells, v)
  IN IF c.kind = "obj"
       THEN Obj([i \in 1..Len(c.kv) |-> P(c.kv[i].k, OwnProps(cells, c.kv[i].v))])
       ELSE c
\* The addresses of the objects nested in v, and of v and those.
Nested(cells, v) ==
  IF v.kind = "ref"
    THEN {cells[v.n].kv[i].v.n :
            i \in {j \in 1..Len(cells[v.n].kv) : cells[v.n].kv[j].v.kind = "ref"}}
    ELSE {}
Reach(cells, v) == IF v.kind = "ref" THEN {v.n} \cup Nested(cells, v) ELSE {}

\* ZERO_DISC()
ZERO_DISC ==
  Obj(<<P("backend", Num(0)), P("frontend", Num(0)),
        P("natives", Num(0)), P("qa", Num(0))>>)

\* JSON.parse(JSON.stringify(v)): a copy of v with new objects throughout;
\* properties whose value is undefined are dropped.
RECURSIVE JSONclone(_)
JSONclone(v) ==
  IF v.kind = "obj"
    THEN LET kept == SelectSeq(v.kv, LAMBDA p : p.v.kind # "undefined")
         IN Obj([i \in 1..Len(kept) |-> P(kept[i].k, JSONclone(kept[i].v))])
    ELSE v

\* if (!result[key]) result[key] = { ...ZERO }, for the track keys from the
\* i-th on.
RECURSIVE DefaultCapacity(_, _)
DefaultCapacity(tc, i) ==
  IF i > Len(TRACK_KEYS) THEN tc
  ELSE DefaultCapacity(IF Falsy(Get(tc, TRACK_KEYS[i]))
                         THEN SetKey(tc, TRACK_KEYS[i], Obj(ZERO_DISC.kv))
                         ELSE tc,
                       i + 1)

\* migrateTrackCapacity(tc)
migrateTrackCapacity(tc) ==
  DefaultCapacity(IF Falsy(tc) THEN Obj(<<>>) ELSE JSONclone(tc), 1)

\* A call of a defaulting helper on the heap.  migrateTracks spreads the
\* properties of its argument, references included; migrateTrackCapacity
\* serialises its argument and parses the text.  The object each returns is
\* new, and so is every literal it has assigned.
CallHelper(fn, cells, arg) ==
  IF fn = "migrateTracks"
    THEN Alloc(cells, migrateTracks(OwnProps(cells, arg)))
    ELSE Alloc(cells, migrateTrackCapacity(Deref(cells, arg)))

\* The documents the helpers are called on: track lists and track capacities
\* under some of the track keys and the legacy key, and null.
AliasTracks ==
  {TracksOf(gm, gw, cb, Undefined) :
     gm \in {Undefined, Arr(<<1>>)}, gw \in {Undefined, Arr(<<2>>)},
     cb \in {Undefined, Arr(<<3, 4>>)}}
AliasCapacities ==
  {TracksOf(Undefined, gw, cb, Undefined) :
     gw \in {Undefined, Obj(<<P("backend", Num(1)), P("qa", Num(2))>>)},
     cb \in {Undefined, Obj(<<P("backend", Num(10)), P("frontend", Num(5)),
                              P("natives", Num(0)), P("qa", Num(3))>>)}}
AliasCalls ==
  {[fn |-> "migrateTracks", doc |-> d] : d \in AliasTracks \cup {Null}}
  \cup {[fn |-> "migrateTrackCapacity", doc |-> d] : d \in AliasCapacities \cup {Null}}

\* The caller holds a document and is about to call a helper on it.
AliasInit ==
  /\ ServerInit
  /\ result = NoResult
  /\ \E c \in AliasCalls :
       IF c.doc.kind = "obj"
         THEN LET a == Alloc(<<>>, c.doc)
              IN /\ heap = [NoHeap EXCEPT !.cells = a.cells]
                 /\ call = [fn |-> c.fn, args |-> <<a.ref>>]
         ELSE /\ heap = NoHeap
              /\ call = [fn |-> c.fn, args |-> <<c.doc>>]

\* The caller calls the helper on its document (once more).
CallOnHeap ==
  /\ call.fn \in {"migrateTracks", "migrateTrackCapacity"}
  /\ Len(heap.results) < MaxCalls
  /\ LET out == CallHelper(call.fn, heap.cells, call.args[1])
     IN heap' = [heap EXCEPT !.cells = out.cells, !.results = Append(@, out.ref),
                             !.touched = 0]
  /\ UNCHANGED <<files, ws, sessions, call, result, clock, req, last>>

\* result[key].push(9), or result[key].backend = 99: the caller changes an
\* object nested in a result.
MutateNested(r, key) ==
  /\ heap.mutations < MaxMutations
  /\ LET slot == Get(heap.cells[heap.results[r].n], key)
     IN /\ slot.kind = "ref"
        /\ heap' = [heap EXCEPT
             !.cells[slot.n] = IF @.kind = "arr" THEN Arr(Append(@.el, 9))
                               ELSE SetKey(@, "backend", Num(99)),
             !.mutations = @ + 1, !.touched = r]
  /\ UNCHANGED <<files, ws, sessions, call, result, clock, req, last>>

\* result[key] = null: the caller changes a property of a result.
MutateResult(r, key) ==
  /\ heap.mutations < MaxMutations
  /\ HasKey(heap.cells[heap.results[r].n], key)
  /\ heap' = [heap EXCEPT !.cells[heap.results[r].n] = SetKey(@, key, Null),
                          !.mutations = @ + 1, !.touched = r]
  /\ UNCHANGED <<files, ws, sessions, call, result, clock, req, last>>

AliasKeys == {"gamification", "core-bonus", "gateway", "seo-aff"}

AliasNext ==
  \/ CallOnHeap
  \/ \E r \in 1..Len(heap.results), key \in AliasKeys : MutateNested(r, key)
  \/ \E r \in 1..Len(heap.results), key \in AliasKeys : MutateResult(r, key)

SpecAlias == AliasInit /\ [][AliasNext]_vars

\* A request that wrote the state document of its vertical.
WroteState ==
  /\ last.status = 200
  /\ last.req.op \in {"saveState", "saveProjects", "restoreSnapshot"}

\* C1: in every operation that writes the state document (state save, project
\* save, snapshot restore) a field's stored value changes if and only if its
\* _fieldTs entry is set to the operation's time in the same write.
C1_DocumentAndTimestampsAgree ==
  WroteState =>
    \A f \in Fields :
      LET changed == StoredDoc.fields[f] # LoadedDoc.fields[f]
      IN /\ changed => StoredDoc.fieldTs[f] = last.now
         /\ StoredDoc.fieldTs[f] # LoadedDoc.fieldTs[f]
              => (changed /\ StoredDoc.fieldTs[f] = last.now)

\* C2: a state save whose value for a field is deep-equal to the stored value,
\* sent with _loadedAt = 0 or _loadedAt >= _fieldTs[field], leaves
\* _fieldTs[field] as it was.
C2_NoOpWriteKeepsTimestamp ==
  StateSaved =>
    \A f \in Fields :
      (/\ Sent(f)
       /\ DeepEqual(last.req.body[f], LoadedDoc.fields[f])
       /\ (SentLoadedAt = 0 \/ SentLoadedAt >= LoadedDoc.fieldTs[f]))
      => StoredDoc.fieldTs[f] = LoadedDoc.fieldTs[f]

\* C3: when _fieldTs[field] equals the client's non-zero _loadedAt the save
\* takes the no-conflict path: the client's value is stored and the field is
\* not in `conflicts`.
C3_BoundaryIsNoConflict ==
  StateSaved =>
    \A f \in Fields :
      (Sent(f) /\ SentLoadedAt # 0 /\ LoadedDoc.fieldTs[f] = SentLoadedAt)
      => (StoredDoc.fields[f] = last.req.body[f] /\ ~InConflicts(f))

\* A save at the boundary that replaced a different stored value.
C3_Witness ==
  /\ StateSaved
  /\ \E f \in Fields :
       /\ Sent(f) /\ SentLoadedAt # 0 /\ LoadedDoc.fieldTs[f] = SentLoadedAt
       /\ ~DeepEqual(last.req.body[f], LoadedDoc.fields[f])
       /\ ~KeyedObject(LoadedDoc.fields[f])
       /\ StoredDoc.fields[f] = last.req.body[f]

C5_NonObjectConflictRejected ==
  StateSaved =>
    \A f \in Fields :
      (/\ Sent(f) /\ Stale(f)
       /\ (~KeyedObject(last.req.body[f]) \/ ~KeyedObject(LoadedDoc.fields[f])))
      => /\ StoredDoc.fields[f] = LoadedDoc.fields[f]
         /\ StoredDoc.fieldTs[f] = LoadedDoc.fieldTs[f]
         /\ InConflicts(f)

\* A rejected stale array over a different stored array.
C5_Witness ==
  /\ StateSaved
  /\ \E f \in Fields :
       /\ Sent(f) /\ Stale(f)
       /\ last.req.body[f].kind = "arr" /\ LoadedDoc.fields[f].kind = "arr"
       /\ last.req.body[f] # LoadedDoc.fields[f]
       /\ StoredDoc.fields[f] = LoadedDoc.fields[f]
       /\ InConflicts(f)

\* C6: on a conflict between two keyed objects that differ in a sub-key, the
\* stored value becomes the client's object (its omitted sub-keys deleted),
\* the field's timestamp becomes `now`, and the field is not in `conflicts`.
C6_ObjectConflictTakesClientObject ==
  StateSaved =>
    \A f \in Fields :
      (/\ Sent(f) /\ Stale(f)
       /\ KeyedObject(last.req.body[f]) /\ KeyedObject(LoadedDoc.fields[f])
       /\ DifferInSubKey(last.req.body[f], LoadedDoc.fields[f]))
      => /\ StoredDoc.fields[f] = last.req.body[f]
         /\ StoredDoc.fieldTs[f] = last.now
         /\ ~InConflicts(f)

\* A merge in which the client omitted one of the server's sub-keys and
\* changed another.
C6_Witness ==
  /\ StateSaved
  /\ \E f \in Fields :
       /\ Sent(f) /\ Stale(f)
       /\ KeyedObject(last.req.body[f]) /\ KeyedObject(LoadedDoc.fields[f])
       /\ \E k \in KeySet(LoadedDoc.fields[f]) : ~HasKey(last.req.body[f], k)
       /\ \E k \in KeySet(last.req.body[f]) :
            /\ HasKey(LoadedDoc.fields[f], k)
            /\ Get(last.req.body[f], k) # Get(LoadedDoc.fields[f], k)
       /\ StoredDoc.fields[f] = last.req.body[f]
       /\ LoadedDoc.fieldTs[f] < last.now
       /\ StoredDoc.fieldTs[f] = last.now

\* A state save that a session sent, and the session.
ClientSaved == StateSaved /\ last.req.sender # 0
Sender == clients[last.req.sender]
SubKeysOf(cl) == KeySet(cl.captured) \cup KeySet(cl.latest) \cup KeySet(cl.localValue)

\* C7: on a conflicting save of an object field, a sub-key the client did not
\* modify relative to the document it loaded keeps the server's current value.
C7_UnmodifiedSubKeyKeepsServerValue ==
  ClientSaved =>
    LET f == ClientField
        sent == last.req.body[f]
        server == LoadedDoc.fields[f]
    IN (Stale(f) /\ KeyedObject(sent) /\ KeyedObject(server)
        /\ KeyedObject(Sender.captured))
       => \A subKey \in KeySet(sent) \cap KeySet(Sender.captured) :
            DeepEqual(Get(sent, subKey), Get(Sender.captured, subKey))
            => DeepEqual(Get(StoredDoc.fields[f], subKey), Get(server, subKey))

\* Session B saves its deep-merged value while the stored value is the one it
\* received as latest; x is a sub-key whose stored value is not the one B
\* loaded and that B left alone, y one that B edited.
C8_Case(x, y) ==
  /\ ClientSaved
  /\ KeyedObject(Sender.captured) /\ KeyedObject(Sender.latest)
  /\ KeyedObject(Sender.localValue)
  /\ Sender.latest = LoadedDoc.fields[ClientField]
  /\ last.req.body[ClientField]
       = deepMergeObject(Sender.localValue, Sender.latest, Sender.captured).merged
  /\ last.req.loadedAt = Sender.loadedAt
  /\ x # y
  /\ HasKey(Sender.latest, x)
  /\ Get(Sender.latest, x) # Get(Sender.captured, x)
  /\ Get(Sender.localValue, x) = Get(Sender.captured, x)
  /\ Get(Sender.localValue, y) # Get(Sender.captured, y)

C9_SavesAreSerialized ==
  \A s \in Slots :
    inflight[s].pc = "loaded"
    => /\ inflight[s].existing = loadJSON(stateFiles[inflight[s].req.key], EmptyDoc)
       /\ \A t \in Slots \ {s} : inflight[t].pc # "loaded"

\* Two saves of one vertical overlap: one has loaded, the other is accepted
\* and waits.
C9_Witness ==
  \E s \in Slots, t \in Slots :
    /\ inflight[s].pc = "loaded"
    /\ inflight[t].pc = "pending"
    /\ inflight[t].req.key = inflight[s].req.key
    /\ hasAnyField(inflight[t].req.body)
    /\ inflight[s].existing.updatedAt # 0

\* C10: a state save leaves every field that is absent from the request
\* untouched: its stored value and its _fieldTs entry are as before.
C10_AbsentFieldsUntouched ==
  StateSaved =>
    \A f \in Fields :
      ~Sent(f) => /\ StoredDoc.fields[f] = LoadedDoc.fields[f]
                  /\ StoredDoc.fieldTs[f] = LoadedDoc.fieldTs[f]

\* A save that changed one field while another, absent from the request, had a
\* value and a timestamp.
C10_Witness ==
  /\ StateSaved
  /\ \E f, g \in Fields :
       /\ ~Sent(f) /\ LoadedDoc.fields[f] # Undefined /\ LoadedDoc.fieldTs[f] > 0
       /\ Sent(g) /\ StoredDoc.fields[g] # LoadedDoc.fields[g]
       /\ StoredDoc.fields[f] = LoadedDoc.fields[f]

\* C11: within one state save each field is resolved on its own: what is
\* stored for a field, its timestamp and whether it is in `conflicts` are what
\* the field's client value, server value, timestamp and _loadedAt give, whatever
\* else the request holds.
C11_FieldsResolvedIndependently ==
  StateSaved =>
    \A f \in Fields :
      Sent(f) =>
        LET alone == MergeField(LoadedDoc, LoadedDoc.fieldTs, f, last.req.body[f],
                                SentLoadedAt)
        IN /\ StoredDoc.fields[f]
                = (IF alone.assign THEN alone.value ELSE LoadedDoc.fields[f])
           /\ StoredDoc.fieldTs[f]
                = (IF alone.bump THEN last.now ELSE LoadedDoc.fieldTs[f])
           /\ InConflicts(f) <=> alone.rejected

\* One request with a merged object field and a rejected array field.
C11_Witness ==
  /\ StateSaved
  /\ Sent("tracks") /\ Stale("tracks")
  /\ KeyedObject(last.req.body["tracks"]) /\ KeyedObject(LoadedDoc.fields["tracks"])
  /\ StoredDoc.fields["tracks"] = last.req.body["tracks"]
  /\ StoredDoc.fields["tracks"] # LoadedDoc.fields["tracks"]
  /\ ~InConflicts("tracks")
  /\ Sent("milestones") /\ Stale("milestones")
  /\ last.req.body["milestones"].kind = "arr"
  /\ InConflicts("milestones")
  /\ StoredDoc.fields["milestones"] = LoadedDoc.fields["milestones"]

\* The client's object has no changed, added or omitted sub-key relative to
\* the server's object.
SameSubKeys(clientValue, serverValue) ==
  /\ KeySet(clientValue) = KeySet(serverValue)
  /\ \A subKey \in KeySet(clientValue) :
       DeepEqual(Get(clientValue, subKey), Get(serverValue, subKey))

\* C12: on the conflict path with two keyed objects, a client object with no
\* changed, added or omitted sub-key leaves the field's stored value and
\* timestamp as they were, and the field is not in `conflicts`.
C12_UnchangedMergeIsNoRejection ==
  StateSaved =>
    \A f \in Fields :
      (/\ Sent(f) /\ Stale(f)
       /\ KeyedObject(last.req.body[f]) /\ KeyedObject(LoadedDoc.fields[f])
       /\ SameSubKeys(last.req.body[f], LoadedDoc.fields[f]))
      => /\ StoredDoc.fields[f] = LoadedDoc.fields[f]
         /\ StoredDoc.fieldTs[f] = LoadedDoc.fieldTs[f]
         /\ ~InConflicts(f)

\* C13: the mergedState of a successful state save holds every field of the
\* document as that save persisted it, _loadedAt is the `now` the save used for
\* the field timestamps, and there is no _fieldTs in it.
C13_MergedStateIsThePersistedDocument ==
  StateSaved =>
    /\ \A f \in Fields : last.mergedState.fields[f] = StoredDoc.fields[f]
    /\ last.mergedState.updatedAt = StoredDoc.updatedAt
    /\ last.mergedState.loadedAt = last.now
    /\ \A f \in Fields :
         StoredDoc.fieldTs[f] # LoadedDoc.fieldTs[f]
         => StoredDoc.fieldTs[f] = last.mergedState.loadedAt
    /\ ~last.mergedState.hasFieldTs
    /\ \A f \in Fields : last.mergedState.fieldTs[f] = 0

\* A save that changed one field, rejected another and left a third alone, on
\* a document that has field timestamps.
C13_Witness ==
  /\ StateSaved
  /\ StoredDoc.hasFieldTs
  /\ \E f \in Fields :
       Sent(f) /\ StoredDoc.fieldTs[f] = last.now /\ LoadedDoc.fieldTs[f] # last.now
  /\ \E f \in Fields : InConflicts(f)
  /\ \E f \in Fields : ~Sent(f) /\ last.mergedState.fields[f] # Undefined

\* C14: a state save whose body has none of the state fields is answered with
\* 400 and has no effect: the state file (document, field timestamps,
\* updatedAt) is as before and broadcastUpdate is not called.
C14_NoFieldsIs400WithoutEffect ==
  (last.req.op = "saveState" /\ \A f \in Fields : last.req.body[f] = Undefined)
  => /\ last.status = 400
     /\ stateFiles[last.req.key] = last.pre
     /\ projectFiles[last.req.key] = last.preProjects
     /\ ~last.broadcast.called

\* Such a save arrives later than the document's last write, with _loadedAt 0.
C14_Witness ==
  /\ last.req.op = "saveState"
  /\ \A f \in Fields : last.req.body[f] = Undefined
  /\ last.req.loadedAt = 0
  /\ last.pre.exists /\ last.pre.doc.hasFieldTs
  /\ last.pre.doc.updatedAt < last.now

\* The state file has a _fieldTs entry for the field.
HasFieldTsEntry(file, f) == file.exists /\ file.doc.fieldTs[f] # 0

\* C15: a field's entry in the timestamp map is never removed: no state save,
\* project save or snapshot restore takes a _fieldTs entry out of a vertical's
\* state document.
C15_FieldTsEntryNeverRemoved ==
  [][\A key \in Verticals, f \in Fields :
       HasFieldTsEntry(stateFiles[key], f) => HasFieldTsEntry(stateFiles'[key], f)]_vars

\* C16: the document GET state returns is defaulted: capacity and tracks are
\* always present in it, and they are the defaults when the vertical has no
\* state file.
C16_GetStateIsDefaulted ==
  \A key \in Verticals :
    LET got == getState(stateFiles[key], clock).state
    IN /\ got.fields["capacity"] # Undefined
       /\ got.fields["tracks"] # Undefined
       /\ ~stateFiles[key].exists
            => /\ got.fields["capacity"] = DEFAULT_CAPACITY
               /\ got.fields["tracks"] = DEFAULT_TRACKS

\* A call of deepMergeObject that has returned, and its arguments.
MergeDone == call.fn = "deepMergeObject" /\ result.done
Local == call.args[1]
Latest == call.args[2]
Baseline == call.args[3]
Merged == result.value.merged
\* The call merges: the three values are keyed objects.
MergeCase ==
  MergeDone /\ KeyedObject(Local) /\ KeyedObject(Latest) /\ KeyedObject(Baseline)
MergeKeys == KeySet(Local) \cup KeySet(Latest) \cup KeySet(Baseline)

\* C17: for every sub-key the user did not change relative to the captured
\* baseline, the merged result matches the latest server value: the same value
\* if the server has the key, absent if the server no longer has it.
C17_UnchangedSubKeysFollowServer ==
  MergeCase =>
    \A subKey \in MergeKeys :
      DeepEqual(Get(Local, subKey), Get(Baseline, subKey))
      => DeepEqual(Get(Merged, subKey), Get(Latest, subKey))

\* C18: for every sub-key of the captured baseline that the user changed or
\* deleted, the merged result is as in the local value, the user's value or
\* absent, whatever the latest server value holds for it.
C18_UserChangesWin ==
  (MergeDone /\ KeyedObject(Local) /\ KeyedObject(Baseline)) =>
    \A subKey \in KeySet(Baseline) :
      ~DeepEqual(Get(Local, subKey), Get(Baseline, subKey))
      => Get(Merged, subKey) = Get(Local, subKey)

\* The user changed one sub-key and deleted another, and the server holds a
\* third value for each.
C18_Witness ==
  /\ MergeCase
  /\ \E k1 \in KeySet(Baseline), k2 \in KeySet(Baseline) :
       /\ HasKey(Local, k1) /\ HasKey(Latest, k1)
       /\ ~DeepEqual(Get(Local, k1), Get(Baseline, k1))
       /\ ~DeepEqual(Get(Latest, k1), Get(Baseline, k1))
       /\ ~DeepEqual(Get(Latest, k1), Get(Local, k1))
       /\ Get(Merged, k1) = Get(Local, k1)
       /\ ~HasKey(Local, k2) /\ HasKey(Latest, k2)
       /\ ~DeepEqual(Get(Latest, k2), Get(Baseline, k2))
       /\ ~HasKey(Merged, k2)

\* C19: every sub-key of the latest server value that the user did not touch,
\* a key absent from the captured baseline or a key whose local value
\* deep-equals its baseline value, is in the merged result with the latest
\* server value.
C19_UntouchedSubKeysTakeLatest ==
  MergeCase =>
    \A subKey \in KeySet(Latest) :
      (\/ ~HasKey(Baseline, subKey)
       \/ /\ HasKey(Local, subKey)
          /\ DeepEqual(Get(Local, subKey), Get(Baseline, subKey)))
      => Get(Merged, subKey) = Get(Latest, subKey)

\* A call of migrateTracks that has returned, its argument as an object, and
\* what it returned.
MigrateDone == call.fn = "migrateTracks" /\ result.done
Tracks == Spread(call.args[1])
Migrated == result.value
\* The legacy key is renamed: it is gone from the result.
Renamed == HasKey(Tracks, "gamification") /\ ~HasKey(Migrated, "gamification")
BothPresent == HasKey(Tracks, "gamification") /\ HasKey(Tracks, "gateway")
\* The value the migration leaves under a track key holding v.
Defaulted(v) == IF Falsy(v) THEN Arr(<<>>) ELSE v

HelperCase == call.fn \in {"migrateTracks", "migrateTrackCapacity"}
InputRef == call.args[1]
\* The default a helper gives a missing track key.
HelperDefault == IF call.fn = "migrateTracks" THEN Arr(<<>>) ELSE ZERO_DISC
\* A step that is a call, and the document it returned.
HelperReturns == Len(heap'.results) > Len(heap.results)
Returned == Deref(heap'.cells, heap'.results[Len(heap'.results)])
\* The keys of the input the helper is to keep: all but a renamed legacy key.
KeptKeys ==
  LET in == Deref(heap.cells, InputRef)
  IN IF call.fn = "migrateTracks" /\ ~HasKey(in, "gateway")
       THEN KeySet(in) \ {"gamification"} ELSE KeySet(in)
\* No object nested in a result is reachable from the input or from another
\* result.
NoSharedStructure(h) ==
  \A i \in 1..Len(h.results) :
    /\ Nested(h.cells, h.results[i]) \cap Reach(h.cells, InputRef) = {}
    /\ \A j \in 1..Len(h.results) \ {i} :
         Nested(h.cells, h.results[i]) \cap Reach(h.cells, h.results[j]) = {}

\* C21: migrateTracks and migrateTrackCapacity never mutate their input, add
\* every missing track key with the empty or zero default while keeping every
\* key already present, and return a document that shares no nested object
\* with the input or with the result of another call: no step, a call or the
\* caller's mutation of a result, changes the input or another result.
C21_HelpersCopyAndDefault ==
  [][HelperCase =>
       /\ Deref(heap'.cells, InputRef) = Deref(heap.cells, InputRef)
       /\ HelperReturns =>
            /\ \A key \in KeptKeys :
                 Get(Returned, key) = Get(Deref(heap.cells, InputRef), key)
            /\ \A i \in 1..Len(TRACK_KEYS) :
                 /\ HasKey(Returned, TRACK_KEYS[i])
                 /\ ~HasKey(Deref(heap.cells, InputRef), TRACK_KEYS[i])
                      => Get(Returned, TRACK_KEYS[i])
                           \in {HelperDefault, Get(Deref(heap.cells, InputRef), "gamification")}
       /\ NoSharedStructure(heap')
       /\ \A i \in 1..Len(heap.results) \ {heap'.touched} :
            Deref(heap'.cells, heap.results[i]) = Deref(heap.cells, heap.results[i])]_vars

\* The step of a handler: the pending request is handled.
HandlerStep == req.op # "none" /\ req'.op = "none"

\* C22: an operation on one vertical, a state save, a project save or a
\* snapshot save, restore or delete, leaves the stored state with its field
\* timestamps, the projects and the snapshots of every other vertical
\* unchanged.
C22_VerticalsAreIndependent ==
  [][HandlerStep =>
       \A key \in Verticals \ {req.key} :
         /\ stateFiles'[key] = stateFiles[key]
         /\ projectFiles'[key] = projectFiles[key]
         /\ snapshotFiles'[key] = snapshotFiles[key]]_vars

\* A snapshot of one vertical was restored over later saves while the other
\* vertical holds saves of its own.
C22_Witness ==
  /\ last.req.op = "restoreSnapshot" /\ last.status = 200
  /\ stateFiles[last.req.key] # last.pre
  /\ \E key \in Verticals \ {last.req.key} :
       /\ stateFiles[key].exists /\ stateFiles[key] # stateFiles[last.req.key]
       /\ stateFiles[key].doc.updatedAt > 0

\* A step in which a successful state save or project save is handled.
SaveStep ==
  /\ HandlerStep
  /\ req.op \in {"saveState", "saveProjects"}
  /\ last'.status = 200
\* The connection is subscribed to the vertical and open.
Watching(w, vertical) ==
  sockets[w].subscribedVertical = vertical /\ sockets[w].readyState = OPEN
\* The messages sent to w in a step.
SentTo(w) ==
  IF Len(sockets'[w].inbox) > Len(sockets[w].inbox)
    THEN SubSeq(sockets'[w].inbox, Len(sockets[w].inbox) + 1, Len(sockets'[w].inbox))
    ELSE <<>>
UpdatesTo(w) == SelectSeq(SentTo(w), LAMBDA m : m.type = "update")

\* C23: every successful state save and project save for a vertical sends one
\* update message, with the vertical's stored state and projects as of that
\* save and the sender's senderId, to every connection that is subscribed to
\* the vertical and open.
C23_SaveBroadcastsToSubscribers ==
  [][SaveStep =>
       \A w \in ConnIds :
         Watching(w, req.key) =>
           /\ Len(UpdatesTo(w)) = 1
           /\ UpdatesTo(w)[1].vertical = req.key
           /\ UpdatesTo(w)[1].senderId = req.sender
           /\ UpdatesTo(w)[1].state.fields = stateFiles'[req.key].doc.fields
           /\ UpdatesTo(w)[1].state.updatedAt = stateFiles'[req.key].doc.updatedAt
           /\ UpdatesTo(w)[1].projects = projectFiles'[req.key].items]_vars

\* A save with a sender id has been handled and both connections hold its
\* update message.
C23_Witness ==
  /\ last.status = 200 /\ last.req.op = "saveProjects" /\ last.req.sender # 0
  /\ \A w \in ConnIds :
       /\ Watching(w, last.req.key)
       /\ sockets[w].inbox # <<>>
       /\ sockets[w].inbox[Len(sockets[w].inbox)].type = "update"
       /\ sockets[w].inbox[Len(sockets[w].inbox)].senderId = last.req.sender
       /\ sockets[w].inbox[Len(sockets[w].inbox)].projects = projectFiles[last.req.key].items

\* C24: an update message for a vertical is never sent to a connection whose
\* subscription is a different vertical, or that has not subscribed.
C24_NoUpdateForOtherVertical ==
  [][\A w \in ConnIds :
       \A i \in 1..Len(UpdatesTo(w)) :
         sockets[w].subscribedVertical = UpdatesTo(w)[i].vertical]_vars

\* A save of growth was broadcast to one connection while the other, open and
\* subscribed to casino, got nothing.
C24_Witness ==
  /\ last.status = 200 /\ last.broadcast.called
  /\ \E w1 \in ConnIds, w2 \in ConnIds :
       /\ sockets[w1].inbox # <<>>
       /\ sockets[w1].inbox[Len(sockets[w1].inbox)].type = "update"
       /\ sockets[w1].inbox[Len(sockets[w1].inbox)].vertical = last.req.key
       /\ Watching(w2, "casino") /\ last.req.key # "casino"
       /\ sockets[w2].inbox = <<>>

\* The subscriber sets a connection is a member of.
MemberOf(vc, w) == {v \in WsVerticals : w \in vc[v]}
\* A step in which the message handler of w runs.
MessageStep(w) == sockets[w].raw # NoRaw /\ sockets'[w].raw = NoRaw
\* A well-formed subscribe message.
ValidSubscribe(raw) == raw.json /\ raw.type = "subscribe" /\ raw.vertical \in WsVerticals

\* C25: every connection is a member of at most one vertical's subscriber set
\* at every moment: a subscribe to a new vertical removes the connection from
\* the set it was in, and an invalid or incomplete message changes no
\* subscription.
C25_AtMostOneSubscription ==
  [][\A w \in ConnIds :
       /\ Cardinality(MemberOf(verticalClients', w)) <= 1
       /\ MessageStep(w) =>
            IF ValidSubscribe(sockets[w].raw)
              THEN MemberOf(verticalClients', w) = {sockets[w].raw.vertical}
              ELSE /\ verticalClients' = verticalClients
                   /\ sockets'[w].subscribedVertical = sockets[w].subscribedVertical]_vars

\* Both connections are subscribed, one of them after a subscription to
\* another vertical that came first.
C25_Witness ==
  /\ MemberOf(verticalClients, "w1") = {"casino"}
  /\ MemberOf(verticalClients, "w2") = {"growth"}
  /\ verticalClients["growth"] = {"w2"}
  /\ \E w \in ConnIds : sockets[w].inbox # <<>> /\ sockets[w].inbox[1].type = "update"
                        /\ sockets[w].inbox[1].vertical # sockets[w].subscribedVertical

\* C26: once a connection has closed it is a member of no subscriber set,
\* whatever it subscribed to before, and no broadcast sends to it any more.
C26_ClosedConnectionIsUnsubscribed ==
  [][\A w \in ConnIds :
       sockets'[w].readyState = CLOSED =>
         /\ MemberOf(verticalClients', w) = {}
         /\ SentTo(w) = <<>>]_vars

\* A connection that had subscribed to a vertical is closed, and a save of
\* that vertical has been broadcast since, to the other connection only.
C26_Witness ==
  /\ last.status = 200 /\ last.broadcast.called
  /\ \E w \in ConnIds, o \in ConnIds :
       /\ sockets[w].readyState = CLOSED
       /\ sockets[w].subscribedVertical = last.req.key
       /\ sockets[w].inbox = <<>>
       /\ Watching(o, last.req.key)
       /\ sockets[o].inbox # <<>> /\ sockets[o].inbox[Len(sockets[o].inbox)].type = "update"

\* A project save that has succeeded, the ids of the projects it saved, and
\* the track lists of a tracks value.
ProjectsSaved == last.req.op = "saveProjects" /\ last.status = 200
SavedIds == {last.req.projects.items[i].id : i \in 1..Len(last.req.projects.items)}
TrackLists(tracks) ==
  IF tracks.kind = "obj" THEN {k \in KeySet(tracks) : Get(tracks, k).kind = "arr"} ELSE {}
TracksBefore == loadJSON(last.pre, DefaultStateDoc).fields["tracks"]
TracksAfter == stateFiles[last.req.key].doc.fields["tracks"]

\* C27: right after a successful project save no track list of the stored
\* tracks holds an id that is not the id of a saved project, and the ids of
\* saved projects that were in a track are still in it, in the same order.
C27_TracksHoldSavedProjectsOnly ==
  ProjectsSaved =>
    /\ \A k \in TrackLists(TracksAfter) :
         \A i \in 1..Len(Get(TracksAfter, k).el) : Get(TracksAfter, k).el[i] \in SavedIds
    /\ \A k \in TrackLists(TracksBefore) :
         /\ k \in TrackLists(TracksAfter)
         /\ Get(TracksAfter, k).el
              = SelectSeq(Get(TracksBefore, k).el, LAMBDA id : id \in SavedIds)

\* A project save removed one id of a track and kept two others in their
\* order.
C27_Witness ==
  /\ ProjectsSaved
  /\ \E k \in TrackLists(TracksBefore) :
       /\ Len(Get(TracksAfter, k).el) >= 2
       /\ Len(Get(TracksAfter, k).el) < Len(Get(TracksBefore, k).el)
       /\ Get(TracksAfter, k).el[1] # Get(TracksAfter, k).el[2]

\* The snapshots of a vertical with a given id.
SnapshotsWithId(snapshots, id) ==
  {snapshots[i] : i \in {j \in 1..Len(snapshots) : snapshots[j].id = id}}

\* C28: after a successful restore of a snapshot the stored state and the
\* stored projects of the vertical are those captured when the snapshot was
\* saved, whatever was saved in between: a snapshot save captures the state
\* and the projects stored then, a snapshot is never changed while it is
\* kept, and a restore stores what the snapshot holds.
C28_RestoreBringsBackTheSnapshot ==
  [][/\ (HandlerStep /\ req.op = "saveSnapshot" /\ last'.status = 200)
          => /\ Head(snapshotFiles'[req.key]).state = loadJSON(stateFiles[req.key], EmptyDoc)
             /\ Head(snapshotFiles'[req.key]).projects = loadProjects(projectFiles[req.key])
             /\ SnapshotsWithId(snapshotFiles[req.key], Head(snapshotFiles'[req.key]).id) = {}
     /\ \A key \in Verticals :
          \A i \in 1..Len(snapshotFiles[key]) :
            SnapshotsWithId(snapshotFiles'[key], snapshotFiles[key][i].id)
              \subseteq {snapshotFiles[key][i]}
     /\ (HandlerStep /\ req.op = "restoreSnapshot" /\ last'.status = 200)
          => \E snapshot \in SnapshotsWithId(snapshotFiles[req.key], req.id) :
               /\ stateFiles'[req.key] = FileOf(snapshot.state)
               /\ loadProjects(projectFiles'[req.key]) = snapshot.projects]_vars

\* A restore has replaced a state and projects that were saved after the
\* snapshot was taken.
C28_Witness ==
  /\ last.req.op = "restoreSnapshot" /\ last.status = 200
  /\ stateFiles[last.req.key] # last.pre
  /\ projectFiles[last.req.key] # last.preProjects
  /\ \E snapshot \in SnapshotsWithId(snapshotFiles[last.req.key], last.req.id) :
       /\ stateFiles[last.req.key].doc = snapshot.state
       /\ projectFiles[last.req.key].items = snapshot.projects

\* The state save of a page that sends field f with its non-zero _loadedAt
\* after the stored value of f has changed since the page's load.
ChangedSinceLoad(f) ==
  /\ ClientSaved /\ Sent(f)
  /\ SentLoadedAt # 0 /\ SentLoadedAt = Sender.loadedAt
  /\ LoadedDoc.fields[f] # Get(Sender.captured, f)

\* C29: with state saves only, when the stored value of a field was changed
\* by another client's save after a client's _loadedAt was issued, the
\* client's next save of the field with that _loadedAt takes the conflict
\* path, also when the load and the other save fall in the same millisecond.
C29_ChangedFieldIsAConflict ==
  \A f \in Fields : ChangedSinceLoad(f) => Stale(f)

\* C30: a project save whose cleanup changed the stored tracks is seen by
\* the conflict detection: a page that loaded before it and saves `tracks`
\* with its old _loadedAt takes the conflict path.
C30_CleanupIsAConflict ==
  (ChangedSinceLoad("tracks") /\ last.req.sender = 1) => Stale("tracks")

\* The state save of a page that sends field f with its non-zero _loadedAt
\* when the stored document is a restored snapshot whose value of f is not
\* the one the page loaded.
RestoredSinceLoad(f) ==
  /\ ChangedSinceLoad(f)
  /\ \E i \in 1..Len(snapshotFiles[last.req.key]) :
       snapshotFiles[last.req.key][i].state = LoadedDoc

\* C31: a snapshot restore wins over stale clients: a state save of a page
\* whose non-zero _loadedAt predates a restore that changed a field does not
\* take the no-conflict path for that field.
C31_RestoreWinsOverStaleClients ==
  \A f \in Fields : RestoredSinceLoad(f) => Stale(f)

\* The state save of a session that sent the _loadedAt it received last,
\* while the stored document is the one that came with that _loadedAt.
FreshSave ==
  /\ ClientSaved
  /\ SentLoadedAt # 0 /\ SentLoadedAt = Sender.loadedAt
  /\ Received(LoadedDoc) = Sender.captured

\* C32: a client that saves with the most recent _loadedAt it received from
\* the server (GET state, a save response or a broadcast), when the vertical
\* was not written after that marker was issued, has no field listed in
\* `conflicts`; in particular not in a save that follows its own save.
C32_FreshMarkerNeverConflicts ==
  FreshSave => last.conflicts = <<>>

\* A session replaces a list it stored itself, in the millisecond of that
\* save, with the _loadedAt of that save's response.
C32_Witness ==
  /\ FreshSave
  /\ Sent("milestones")
  /\ LoadedDoc.fieldTs["milestones"] = SentLoadedAt
  /\ LoadedDoc.fields["milestones"].kind = "arr"
  /\ StoredDoc.fields["milestones"] # LoadedDoc.fields["milestones"]

StoredFieldTs(sFiles, key, f) == loadJSON(sFiles[key], EmptyDoc).fieldTs[f]

\* C34: under state saves with a server clock that does not go back, no
\* _fieldTs entry ever decreases, and after a save none exceeds the server
\* time of that save, the most recent one.
C34_FieldTsMonotoneAndBounded ==
  [][\A key \in Verticals, f \in Fields :
       /\ StoredFieldTs(stateFiles', key, f) >= StoredFieldTs(stateFiles, key, f)
       /\ (HandlerStep /\ req.key = key /\ last'.status = 200)
            => /\ StoredFieldTs(stateFiles', key, f) <= last'.now
               /\ StoredFieldTs(stateFiles', key, f)
                    <= loadJSON(stateFiles'[key], EmptyDoc).updatedAt]_vars

\* A save has raised the entry of one field from an earlier time to its own
\* and kept the older entry of another.
C34_Witness ==
  /\ StateSaved
  /\ \E f \in Fields, g \in Fields :
       /\ LoadedDoc.fieldTs[f] > 0
       /\ StoredDoc.fieldTs[f] = last.now
       /\ StoredDoc.fieldTs[f] > LoadedDoc.fieldTs[f]
       /\ StoredDoc.fieldTs[g] > 0
       /\ StoredDoc.fieldTs[g] < last.now

\* The narratives of the audit entry the save has written that were built
\* for field f.
NarrativesOf(f) == SelectSeq(last.audit.diffs, LAMBDA n : n.field = f)

\* C35: the audit entry of a state save describes only changes that were
\* applied: a field whose client value was rejected contributes no
\* narrative, and a save whose fields were all rejected writes no entry.
C35_AuditDescribesAppliedChangesOnly ==
  StateSaved =>
    /\ \A f \in Fields : InConflicts(f) => NarrativesOf(f) = <<>>
    /\ (\A f \in Fields : Sent(f) => InConflicts(f)) => ~last.audit.written

\* C36: the internal timestamp map _fieldTs is never sent to clients: it is
\* in no response of GET state or of a state save, and in no message
\* broadcast on a WebSocket connection, and the response of poll carries no
\* entry of it.
C36_FieldTsIsNeverSent ==
  /\ \A key \in Verticals :
       /\ ~getState(stateFiles[key], clock).state.hasFieldTs
       /\ \A f \in Fields :
            getPoll(stateFiles[key], projectFiles[key]).fieldTs[f] = 0
  /\ StateSaved => ~last.mergedState.hasFieldTs
  /\ \A w \in ConnIds :
       \A i \in 1..Len(sockets[w].inbox) : ~sockets[w].inbox[i].state.hasFieldTs

\* C37: a state save whose _loadedAt is missing, null or otherwise falsy is
\* handled exactly like one with _loadedAt = 0: it stores and answers what
\* the same request with _loadedAt = 0 would, every field of the request is
\* accepted and `conflicts` is empty.
C37_MissingLoadedAtIsForceOverwrite ==
  (StateSaved /\ last.req.loadedAt = Missing) =>
    LET forced == saveStateResult([last.req EXCEPT !.loadedAt = 0], last.pre, last.now)
    IN /\ stateFiles[last.req.key] = forced.file
       /\ last.conflicts = forced.conflicts
       /\ last.mergedState = forced.mergedState
       /\ \A f \in Fields : Sent(f) => StoredDoc.fields[f] = last.req.body[f]
       /\ last.conflicts = <<>>

\* A save without _loadedAt has replaced a list stored at an earlier time,
\* which a save with the marker of a time before that would not have.
C37_Witness ==
  /\ StateSaved /\ last.req.loadedAt = Missing
  /\ \E f \in Fields :
       /\ Sent(f)
       /\ LoadedDoc.fieldTs[f] > 1
       /\ LoadedDoc.fields[f].kind = "arr"
       /\ last.req.body[f] # LoadedDoc.fields[f]
       /\ StoredDoc.fields[f] = last.req.body[f]
       /\ InConflicts(f) = FALSE

\* A successful restore of a snapshot that holds what is stored now: nothing
\* was written since the snapshot was saved.
RestoresTheCurrent ==
  /\ HandlerStep /\ req.op = "restoreSnapshot" /\ last'.status = 200
  /\ \E snapshot \in SnapshotsWithId(snapshotFiles[req.key], req.id) :
       /\ snapshot.state = loadJSON(stateFiles[req.key], EmptyDoc)
       /\ snapshot.projects = loadProjects(projectFiles[req.key])

\* C38: saving a snapshot and restoring it at once is the identity on the
\* vertical: GET state returns the same document (but for _loadedAt) and
\* the stored projects are the same after the restore as before the
\* snapshot was saved, also for a vertical whose state was never saved.
C38_SnapshotRoundTripIsIdentity ==
  [][RestoresTheCurrent
       => /\ getState(stateFiles'[req.key], clock).state
               = getState(stateFiles[req.key], clock).state
          /\ loadProjects(projectFiles'[req.key])
               = loadProjects(projectFiles[req.key])]_vars


\* C39: the client-side deep merge loses no user edit: every sub-key of the
\* local value whose value differs from the captured baseline, changed or
\* newly added by the user, holds the user's local value in the merged
\* result, even when the latest server value also has that key.
C39_DeepMergeLosesNoUserEdit ==
  (MergeDone /\ KeyedObject(Local) /\ KeyedObject(Baseline)) =>
    \A subKey \in KeySet(Local) :
      ~DeepEqual(Get(Local, subKey), Get(Baseline, subKey))
      => Get(Merged, subKey) = Get(Local, subKey)

====
